---------------------------- MODULE Spec2Model ----------------------------
(***************************************************************************)
(* A model of kubeluma's State Hub (src/kubeluma/server.py): the shared    *)
(* Hub object, the WebSocket handler, the two pattern endpoints and the    *)
(* discovery loop refresh_pods, as they run on one asyncio event loop, and  *)
(* the log stream multiplexer: the logs loop stream_log_task, follow_logs   *)
(* and the worker thread of kube.stream_logs.  One action is one atomic     *)
(* block of the code: the statements a coroutine runs between two awaits,   *)
(* or one iteration of the worker thread.                                   *)
(***************************************************************************)
EXTENDS Integers, Sequences, FiniteSets, TLC

(***************************************************************************)
(* Bounds of the model.                                                    *)
(***************************************************************************)
NumObservers == 2      \* WebSocket connections that may ever be accepted
MaxListLen == 2        \* longest backend pod listing
MaxInFlight == 1       \* requests that may be awaiting their broadcast at once
MaxSubs == 2           \* observers that may be subscribed to one log key at once
MaxLines == 2          \* lines the backend may yield to one log follow
SeenMax == 2           \* SEEN_MAX of poll_events (5000), scaled
SeenTTL == 1           \* SEEN_TTL of poll_events (3600 s), in clock ticks
MaxTime == 2           \* clock ticks that may pass
MaxBody == 3           \* characters of a quantity string before its suffix

(***************************************************************************)
(* Strings.  A Python str is modelled as the sequence of its characters;   *)
(* Ord gives the code point str comparison works on.                       *)
(***************************************************************************)
Ord(c) ==
    CASE c = "(" -> 40
      [] c = "-" -> 45
      [] c = "0" -> 48
      [] c = "1" -> 49
      [] c = "2" -> 50
      [] c = "^" -> 94
      [] c = "a" -> 97
      [] c = "b" -> 98
      [] c = "d" -> 100
      [] c = "e" -> 101
      [] c = "i" -> 105
      [] c = "p" -> 112
      [] c = "w" -> 119

\* Python's str < str: the first differing code point decides, a proper
\* prefix is smaller.
RECURSIVE StrLess(_, _)
StrLess(s, t) ==
    IF t = <<>> THEN FALSE
    ELSE IF s = <<>> THEN TRUE
    ELSE IF Ord(Head(s)) # Ord(Head(t)) THEN Ord(Head(s)) < Ord(Head(t))
    ELSE StrLess(Tail(s), Tail(t))

\* the bug of taking the last key of the sorted list
SortedFirst_last(keys) ==
    CHOOSE k \in keys : \A j \in keys : j = k \/ StrLess(j, k)

\* sorted(keys)[0] of a non-empty key set
SortedFirst(keys) ==
    CHOOSE k \in keys : \A j \in keys : j = k \/ StrLess(k, j)

\* None, where the code holds an Optional[str]; no str the Hub stores is empty
None == <<>>

(***************************************************************************)
(* Pod names, namespaces and the raw pods the backend may list.            *)
(***************************************************************************)
Api10 == <<"a", "p", "i", "-", "1", "0">>
Api2 == <<"a", "p", "i", "-", "2">>
Web1 == <<"w", "e", "b", "-", "1">>
Names == {Api10, Api2, Web1}

\* the pods a focus request may name
FocusRequests == {Api10, Api2}

\* A container of a raw pod: its status (state "absent" stands for a
\* container status whose state is None), the env entries of its spec (ok =
\* FALSE stands for an entry whose processing raises) and the cpu limit of
\* its spec, a quantity string: a number and a suffix "n", "m" or none.
Quantity(n, unit) == [n |-> n, unit |-> unit]

RawContainer(state, env, limit) ==
    [name |-> "app", state |-> state, env |-> env, limit |-> limit]

RawPod(name, uid, container) ==
    [name |-> name, uid |-> uid, namespace |-> "prod",
     containers |-> <<container>>]

RawPods ==
    { RawPod(Api10, "uid-api-10",
             RawContainer("running", <<>>, Quantity(200, "m"))),
      RawPod(Api2, "uid-api-2",
             RawContainer("running", <<>>, Quantity(400, "m"))),
      RawPod(Web1, "uid-web-1",
             RawContainer("running", <<>>, Quantity(1, ""))) }

\* What _list can return: None on an API error, else a list of items
\* (a backend lists a pod once).
Listings ==
    { s \in UNION { [1..n -> RawPods] : n \in 0..MaxListLen } :
        \A i, j \in DOMAIN s : i # j => s[i] # s[j] }

ListResults ==
    { [ok |-> FALSE, items |-> <<>>] } \cup
    { [ok |-> TRUE, items |-> s] : s \in Listings }

(***************************************************************************)
(* Regular expressions: the patterns of the form  ^literal  and  literal,  *)
(* and a pattern with an unbalanced parenthesis, which re.compile rejects. *)
(***************************************************************************)
PatApi == <<"^", "a", "p", "i", "-">>
PatDb == <<"d", "b">>
PatBad == <<"(", "a">>

NoRegex == [set |-> FALSE, anchored |-> FALSE, lit |-> <<>>]

\* re.compile(pattern): ok = FALSE stands for re.error
Compile(pattern) ==
    IF \E i \in DOMAIN pattern : pattern[i] = "("
    THEN [ok |-> FALSE, re |-> NoRegex]
    ELSE IF pattern # <<>> /\ Head(pattern) = "^"
         THEN [ok |-> TRUE,
               re |-> [set |-> TRUE, anchored |-> TRUE, lit |-> Tail(pattern)]]
         ELSE [ok |-> TRUE,
               re |-> [set |-> TRUE, anchored |-> FALSE, lit |-> pattern]]

MatchAt(lit, s, i) ==
    /\ i + Len(lit) - 1 <= Len(s)
    /\ \A k \in 1..Len(lit) : s[i + k - 1] = lit[k]

\* regex.search(name) is not None
Search(re, s) ==
    IF re.anchored THEN MatchAt(re.lit, s, 1)
    ELSE \E i \in 1..(Len(s) + 1) : MatchAt(re.lit, s, i)

\* The request bodies of POST /api/set_pattern: no "pattern" key, an empty
\* pattern, an uncompilable one, and two that compile.
Payloads ==
    { [has |-> FALSE, pattern |-> <<>>] } \cup
    { [has |-> TRUE, pattern |-> p] : p \in {<<>>, PatBad, PatApi, PatDb} }

\* The --pod option of the command line, already compiled, or absent
StartPatterns == {None, PatApi}


(***************************************************************************)
(* Observers and log keys.                                                 *)
(***************************************************************************)
Observers == 1..NumObservers
ResetSlots == 1..MaxInFlight

\* keys of hub.logs_subs, "<pod>::<container>"
LogKeys == { <<Api10, "app">> }

\* the keys observers subscribe to where the log streams are studied
StreamKeys == { <<Api10, "app">>, <<Api2, "app">> }

(***************************************************************************)
(* State.                                                                  *)
(***************************************************************************)
VARIABLES
    regex,            \* hub.regex: the compiled pattern, or NoRegex
    regex_text,       \* hub.regex_text
    focus_pod,        \* hub.focus_pod
    pods,             \* hub.pods: pod name -> pod view
    clients,          \* hub.clients
    logs_subs,        \* hub.logs_subs: key -> set of observers
    refresh_event,    \* hub.refresh_event.is_set()
    conn,             \* per connection: "none", "open", "broken", "closed"
    ws_bc,            \* per connection: the broadcast its handler is awaiting
    http_bc,          \* per reset_pattern request: the broadcast it is awaiting
    disc_pc,          \* where refresh_pods is suspended
    disc_bc,          \* the broadcast refresh_pods is awaiting
    refresh_pending,  \* history: a refresh was requested and no cycle began since
    last,             \* the request the last step served, and its response
    wire,             \* the send_text the last step made
    ws_pc,            \* per connection: where its handler is suspended
    active,           \* the `active` dict of stream_log_task: its keys
    follows,          \* per key: the follow_logs calls made for it, in order
    cbs,              \* per key: the _cb coroutines scheduled and not finished
    met_pc,           \* where poll_metrics is suspended
    met_req,          \* the namespace and name its fetch in flight was issued for
    met_bc,           \* the broadcast poll_metrics is awaiting
    ev_pc,            \* where poll_events is suspended
    ev_cycle,         \* its locals: pod_uids, pod_names, now_ts, items to process
    ev_bc,            \* the broadcast poll_events is awaiting
    seen,             \* its `seen` dict: (uid, first-seen time) in insertion order
    now,              \* time.time()
    published,        \* history: per event uid, when it was last published
                      \* and whether it had been published before
    calc_in,          \* the argument of a call of a pure function
    calc_out,         \* what the call returned
    latest,           \* history: the pod-summary published last
    got               \* history: per observer, the log line delivered last

hubVars == <<regex, regex_text, focus_pod, pods, clients, logs_subs, refresh_event>>
connVars == <<conn, ws_bc>>
discVars == <<disc_pc, disc_bc>>
streamVars == <<active, follows, cbs>>
metVars == <<met_pc, met_req, met_bc>>
evVars == <<ev_pc, ev_cycle, ev_bc, seen, now, published>>
auxVars == <<calc_in, calc_out, latest, got>>
vars == <<hubVars, connVars, http_bc, discVars, refresh_pending, last, wire,
          ws_pc, streamVars, metVars, evVars, auxVars>>

(***************************************************************************)
(* Messages pushed to observers.                                           *)
(***************************************************************************)
NoMsg == [type |-> "none"]
AwaitingMsg == [type |-> "awaitingPattern"]
PodMsg(view) == [type |-> "pod", data |-> view]

\* hub.pods = {}
NoPods == [n \in {} |-> n]

\* the pods_summary list: one rollup per entry of the map
Summary(pds) ==
    { [name |-> n, namespace |-> pds[n].namespace] : n \in DOMAIN pds }

PodsMsg(pds, focus, text) ==
    [type |-> "pods", pods |-> Summary(pds), focus |-> focus, pattern |-> text]

NoWire == [to |-> 0, msg |-> NoMsg, ok |-> FALSE]
NoPayload == [has |-> FALSE, pattern |-> <<>>]
NoList == [ok |-> FALSE, items |-> <<>>]

\* What the last step did: the operation, its argument (the pod of a focus
\* request, the body of a set_pattern request, the result of the list call
\* of a discovery cycle and the focus that cycle found) and the HTTP
\* response, if it gave one.
Label(op, pod, payload, resp) ==
    [op |-> op, pod |-> pod, payload |-> payload, plist |-> NoList, resp |-> resp]
Other == Label("other", None, NoPayload, "")

(***************************************************************************)
(* Hub.broadcast.  The snapshot list(self.clients) is taken when the       *)
(* broadcast starts; each send_text is awaited; the observers whose send   *)
(* raised are discarded from hub.clients after the last send.              *)
(***************************************************************************)
NoBc == [on |-> FALSE, msg |-> NoMsg, all |-> {}, todo |-> {}, dead |-> {}]

StartBc(msg, cl) ==
    [on |-> TRUE, msg |-> msg, all |-> cl, todo |-> cl, dead |-> {}]

\* ws.send_text succeeds on an open connection and raises on any other
SendOk(o) == conn[o] = "open"

\* the bug of a failed send that ends the broadcast
BcAfterSend_abort(b, o) ==
    [b EXCEPT !.todo = IF SendOk(o) THEN @ \ {o} ELSE {},
              !.dead = IF SendOk(o) THEN @ ELSE @ \cup {o}]

BcAfterSend(b, o) ==
    [b EXCEPT !.todo = @ \ {o},
              !.dead = IF SendOk(o) THEN @ ELSE @ \cup {o}]

Sent(b, o) == [to |-> o, msg |-> b.msg, ok |-> SendOk(o)]

(***************************************************************************)
(* The entity view and the discovery cycle's pure steps.                   *)
(***************************************************************************)
\* the env entries of a container that can be processed; the others are
\* skipped by the `except Exception: continue` of the env loop
EnvOk(ev) == ev.ok

EnvList(env) ==
    LET kept == SelectSeq(env, EnvOk)
    IN  [i \in DOMAIN kept |-> kept[i].name]

ContainerView(c) ==
    [name |-> c.name, state |-> c.state, env |-> EnvList(c.env),
     limit |-> c.limit]

\* pod_to_view raises when it reads cstat.state.running of a container
\* status without state: the loop over container_statuses has no try
Raises(p) ==
    \E i \in DOMAIN p.containers : p.containers[i].state = "absent"

pod_to_view(p) ==
    [name |-> p.name, uid |-> p.uid, namespace |-> p.namespace,
     containers |-> [i \in DOMAIN p.containers |->
                       ContainerView(p.containers[i])]]

\* the loop of refresh_pods over plist.items raises at a matching item
BuildRaises(re, items) ==
    \E i \in DOMAIN items : Search(re, items[i].name) /\ Raises(items[i])

\* pods_view: the listed pods whose name the filter finds, keyed by name;
\* a later item of the same name overwrites an earlier one.
\* the bug of a filter that skips nothing
MatchedNames_all(re, items) ==
    { items[i].name : i \in DOMAIN items }

MatchedNames(re, items) ==
    { items[i].name : i \in { j \in DOMAIN items : Search(re, items[j].name) } }

PodsView(re, items) ==
    [ n \in MatchedNames(re, items) |->
        LET i == CHOOSE j \in DOMAIN items :
                    /\ items[j].name = n
                    /\ \A k \in DOMAIN items : items[k].name = n => k <= j
        IN  pod_to_view(items[i]) ]

\* the bug of a failed list call taken for an empty listing
Installs_unchecked(res, re) == re.set

\* the condition under which a cycle builds and installs a new map
Installs(res, re) == res.ok /\ res.items # <<>> /\ re.set

\* the bug of keeping a focus that is set, whatever the new map holds
ReconcileFocus_sticky(focus, pds) ==
    IF focus = None /\ DOMAIN pds # {} THEN SortedFirst(DOMAIN pds) ELSE focus

\* Focus management: the focus after the new map is installed
\* the bug of moving the focus to the first key in every cycle
ReconcileFocus_first(focus, pds) ==
    IF DOMAIN pds # {} THEN SortedFirst(DOMAIN pds) ELSE None

ReconcileFocus(focus, pds) ==
    IF DOMAIN pds # {}
    THEN IF focus = None \/ focus \notin DOMAIN pds
         THEN SortedFirst(DOMAIN pds)
         ELSE focus
    ELSE None

\* the value of `changed` when the cycle reaches `if changed:`
Changed(prev_keys, focus, pds) ==
    \/ DOMAIN pds # prev_keys
    \/ IF DOMAIN pds # {}
       THEN focus = None \/ focus \notin DOMAIN pds
       ELSE focus # None

\* refresh_pods from a point of its body up to its next await.  Each gives
\* the loop's next suspension point, the broadcast it awaits there, and
\* whether it passed refresh_event.clear() on the way.
DiscWait == [pc |-> "wait", bc |-> NoBc, clear |-> TRUE]

DiscCrash == [pc |-> "crashed", bc |-> NoBc, clear |-> FALSE]

DiscDetail(cl, focus, pds) ==
    IF focus = None THEN DiscWait
    ELSE IF focus \notin DOMAIN pds THEN DiscCrash      \* KeyError
    ELSE IF cl = {} THEN DiscWait
    ELSE [pc |-> "detail", bc |-> StartBc(PodMsg(pds[focus]), cl), clear |-> FALSE]

\* the bug of a cycle that publishes the detail without the summary
DiscSummary_nosummary(cl, focus, pds, text) == DiscDetail(cl, focus, pds)

DiscSummary(cl, focus, pds, text) ==
    IF cl = {} THEN DiscDetail(cl, focus, pds)
    ELSE [pc |-> "summary", bc |-> StartBc(PodsMsg(pds, focus, text), cl),
          clear |-> FALSE]

\* the bug of a cycle without filter that publishes nothing
DiscNotice_none(cl) == DiscWait

DiscNotice(cl) ==
    IF cl = {} THEN DiscWait
    ELSE [pc |-> "notice", bc |-> StartBc(AwaitingMsg, cl), clear |-> FALSE]


\* poll_metrics and poll_events as run_server creates them: no fetch and no
\* list call made yet, the seen dict empty.  Each loop's first cycle begins
\* with the first step of the loop.
NoCycle == [ns |-> "", uids |-> {}, names |-> {}, ts |-> 0, rest |-> <<>>]

LoopsInit ==
    /\ met_pc = "sleep"
    /\ met_req = None
    /\ met_bc = NoBc
    /\ ev_pc = "sleep"
    /\ ev_cycle = NoCycle
    /\ ev_bc = NoBc
    /\ seen = <<>>
    /\ now = 0
    /\ published = <<>>

\* no pure function called yet, nothing published or delivered yet
NoSummary == [pods |-> {}, any |-> FALSE]

HistInit ==
    /\ latest = NoSummary
    /\ got = [o \in Observers |-> 0]

CalcInit ==
    /\ calc_in = None
    /\ calc_out = None

AuxInit == HistInit /\ CalcInit

(***************************************************************************)
(* Initial state: run_server has created the Hub's refresh event and the   *)
(* loops; refresh_pods is in its first list call.                          *)
(***************************************************************************)
Init ==
    /\ \E p \in StartPatterns :
         /\ regex = IF p = None THEN NoRegex ELSE Compile(p).re
         /\ regex_text = p
    /\ focus_pod = None
    /\ pods = NoPods
    /\ clients = {}
    /\ logs_subs = [k \in LogKeys |-> {}]
    /\ refresh_event = FALSE
    /\ conn = [o \in Observers |-> "none"]
    /\ ws_bc = [o \in Observers |-> NoBc]
    /\ http_bc = [k \in ResetSlots |-> NoBc]
    /\ disc_pc = "list"
    /\ disc_bc = NoBc
    /\ refresh_pending = FALSE
    /\ last = Other
    /\ wire = NoWire
    /\ ws_pc = [o \in Observers |-> "recv"]
    /\ active = {}
    /\ follows = [k \in LogKeys |-> <<>>]
    /\ cbs = [k \in LogKeys |-> <<>>]
    /\ LoopsInit
    /\ AuxInit

(***************************************************************************)
(* refresh_pods.                                                           *)
(***************************************************************************)
\* The list call returns `res`; the cycle runs to its first send_text, or,
\* with nothing to send, on to the wait.
ListDone(res) ==
    /\ disc_pc = "list"
    /\ LET view == PodsView(regex, res.items)
           focus == ReconcileFocus(focus_pod, view)
           changed == Changed(DOMAIN pods, focus_pod, view)
           next == IF Installs(res, regex)
                   THEN IF changed
                        THEN DiscSummary(clients, focus, view, regex_text)
                        ELSE DiscWait
                   ELSE IF ~regex.set THEN DiscNotice(clients)
                   ELSE DiscWait
       IN  IF Installs(res, regex) /\ BuildRaises(regex, res.items)
           THEN /\ disc_pc' = DiscCrash.pc
                /\ disc_bc' = DiscCrash.bc
                /\ UNCHANGED <<pods, focus_pod, refresh_event>>
           ELSE /\ pods' = IF Installs(res, regex) THEN view ELSE pods
                /\ focus_pod' = IF Installs(res, regex) THEN focus ELSE focus_pod
                /\ disc_pc' = next.pc
                /\ disc_bc' = next.bc
                /\ refresh_event' = IF next.clear THEN FALSE ELSE refresh_event
    /\ last' = [Label("discover", focus_pod, NoPayload, "") EXCEPT !.plist = res]
    /\ wire' = NoWire
    /\ UNCHANGED <<regex, regex_text, clients, logs_subs, connVars, http_bc,
                   refresh_pending>>

\* One send_text of the loop's broadcast; after the last one the dead
\* observers are discarded and the loop runs on to its next await.
DiscSend(o) ==
    /\ disc_pc \in {"summary", "detail", "notice"}
    /\ o \in disc_bc.todo
    /\ wire' = Sent(disc_bc, o)
    /\ LET b == BcAfterSend(disc_bc, o)
           cl == clients \ b.dead
           next == IF disc_pc = "summary"
                   THEN DiscDetail(cl, focus_pod, pods)
                   ELSE DiscWait
       IN  IF b.todo # {}
           THEN /\ disc_bc' = b
                /\ UNCHANGED <<disc_pc, clients, refresh_event>>
           ELSE /\ clients' = cl
                /\ disc_pc' = next.pc
                /\ disc_bc' = next.bc
                /\ refresh_event' = IF next.clear THEN FALSE ELSE refresh_event
    /\ last' = Label("send", None, NoPayload, "")
    /\ UNCHANGED <<regex, regex_text, focus_pod, pods, logs_subs, connVars,
                   http_bc, refresh_pending>>

\* wait_for(refresh_event.wait(), timeout) returns because the event is set
DiscWake ==
    /\ disc_pc = "wait"
    /\ refresh_event
    /\ disc_pc' = "list"
    /\ refresh_pending' = FALSE
    /\ last' = Label("wake", None, NoPayload, "")
    /\ wire' = NoWire
    /\ UNCHANGED <<hubVars, connVars, http_bc, disc_bc>>

\* ... or because POD_REFRESH_SEC went by with the event unset
DiscTimeout ==
    /\ disc_pc = "wait"
    /\ ~refresh_event
    /\ disc_pc' = "list"
    /\ refresh_pending' = FALSE
    /\ last' = Label("timeout", None, NoPayload, "")
    /\ wire' = NoWire
    /\ UNCHANGED <<hubVars, connVars, http_bc, disc_bc>>


(***************************************************************************)
(* websocket_endpoint: one handler per connection.  It serves a request    *)
(* only while it is suspended in receive_text, that is, not while it       *)
(* awaits a broadcast of its own.                                          *)
(***************************************************************************)
Receiving(o) == conn[o] = "open" /\ ~ws_bc[o].on /\ ws_pc[o] = "recv"

\* the requests that are awaiting a broadcast of theirs
InFlight ==
    Cardinality({ o \in Observers : ws_bc[o].on }) +
    Cardinality({ k \in ResetSlots : http_bc[k].on })

\* ws.accept(); hub.clients.add(ws)
Connect(o) ==
    /\ conn[o] = "none"
    /\ conn' = [conn EXCEPT ![o] = "open"]
    /\ clients' = clients \cup {o}
    /\ last' = Other
    /\ wire' = NoWire
    /\ UNCHANGED <<regex, regex_text, focus_pod, pods, logs_subs, refresh_event,
                   ws_bc, http_bc, discVars, refresh_pending>>

\* {"action": "subscribe", "channel": "logs", ...}
SubscribeLogs(o, key) ==
    /\ Receiving(o)
    /\ Cardinality(logs_subs[key] \cup {o}) <= MaxSubs
    /\ logs_subs' = [logs_subs EXCEPT ![key] = @ \cup {o}]
    /\ last' = Other
    /\ wire' = NoWire
    /\ UNCHANGED <<regex, regex_text, focus_pod, pods, clients, refresh_event,
                   connVars, http_bc, discVars, refresh_pending>>

\* the bug of publishing the detail of the pod that was the focus before
Focus_stale(o, pod) ==
    /\ Receiving(o)
    /\ InFlight < MaxInFlight
    /\ IF pod \in DOMAIN pods
       THEN /\ focus_pod' = pod
            /\ ws_bc' = [ws_bc EXCEPT ![o] =
                   IF clients = {} THEN NoBc
                   ELSE StartBc(PodMsg(pods[IF focus_pod # None THEN focus_pod
                                            ELSE pod]), clients)]
       ELSE UNCHANGED <<focus_pod, ws_bc>>
    /\ last' = Label("focus", pod, NoPayload, "")
    /\ wire' = NoWire
    /\ UNCHANGED <<regex, regex_text, pods, clients, logs_subs, refresh_event,
                   conn, http_bc, discVars, refresh_pending>>

\* {"action": "focus", "pod": pod}
Focus(o, pod) ==
    /\ Receiving(o)
    /\ InFlight < MaxInFlight
    /\ IF pod \in DOMAIN pods
       THEN /\ focus_pod' = pod
            /\ ws_bc' = [ws_bc EXCEPT ![o] =
                   IF clients = {} THEN NoBc
                   ELSE StartBc(PodMsg(pods[pod]), clients)]
       ELSE UNCHANGED <<focus_pod, ws_bc>>
    /\ last' = Label("focus", pod, NoPayload, "")
    /\ wire' = NoWire
    /\ UNCHANGED <<regex, regex_text, pods, clients, logs_subs, refresh_event,
                   conn, http_bc, discVars, refresh_pending>>

\* One send_text of the broadcast the handler of `o` awaits
WsSend(o, to) ==
    /\ ws_bc[o].on
    /\ to \in ws_bc[o].todo
    /\ wire' = Sent(ws_bc[o], to)
    /\ LET b == BcAfterSend(ws_bc[o], to)
       IN  IF b.todo # {}
           THEN /\ ws_bc' = [ws_bc EXCEPT ![o] = b]
                /\ UNCHANGED clients
           ELSE /\ ws_bc' = [ws_bc EXCEPT ![o] = NoBc]
                /\ clients' = clients \ b.dead
    /\ last' = Label("send", None, NoPayload, "")
    /\ UNCHANGED <<regex, regex_text, focus_pod, pods, logs_subs, refresh_event,
                   conn, http_bc, discVars, refresh_pending>>

\* The transport of an accepted connection breaks, or the peer closes it
Drop(o) ==
    /\ conn[o] = "open"
    /\ conn' = [conn EXCEPT ![o] = "broken"]
    /\ last' = Other
    /\ wire' = NoWire
    /\ UNCHANGED <<hubVars, ws_bc, http_bc, discVars, refresh_pending>>

\* receive_text raises WebSocketDisconnect; the finally block runs
Disconnect(o) ==
    /\ conn[o] = "broken"
    /\ ~ws_bc[o].on
    /\ ws_pc[o] = "recv"
    /\ conn' = [conn EXCEPT ![o] = "closed"]
    /\ clients' = clients \ {o}
    /\ logs_subs' = [k \in DOMAIN logs_subs |-> logs_subs[k] \ {o}]
    /\ last' = Other
    /\ wire' = NoWire
    /\ UNCHANGED <<regex, regex_text, focus_pod, pods, refresh_event, ws_bc,
                   http_bc, discVars, refresh_pending>>

(***************************************************************************)
(* POST /api/set_pattern and POST /api/reset_pattern.                      *)
(***************************************************************************)
\* the bug of not setting the refresh event
set_pattern_noevent(payload) ==
    /\ IF ~payload.has \/ payload.pattern = <<>>
       THEN /\ last' = Label("set_pattern", None, payload, "pattern required")
            /\ UNCHANGED <<hubVars, refresh_pending>>
       ELSE IF ~Compile(payload.pattern).ok
       THEN /\ last' = Label("set_pattern", None, payload, "invalid regex")
            /\ UNCHANGED <<hubVars, refresh_pending>>
       ELSE /\ regex' = Compile(payload.pattern).re
            /\ regex_text' = payload.pattern
            /\ focus_pod' = None
            /\ pods' = NoPods
            /\ last' = Label("set_pattern", None, payload, "ok")
            /\ UNCHANGED <<clients, logs_subs, refresh_event, refresh_pending>>
    /\ wire' = NoWire
    /\ UNCHANGED <<connVars, http_bc, discVars>>

\* the bug of storing the pattern text before compiling it
set_pattern_textfirst(payload) ==
    /\ IF ~payload.has \/ payload.pattern = <<>>
       THEN /\ last' = Label("set_pattern", None, payload, "pattern required")
            /\ UNCHANGED <<hubVars, refresh_pending>>
       ELSE IF ~Compile(payload.pattern).ok
       THEN /\ regex_text' = payload.pattern
            /\ last' = Label("set_pattern", None, payload, "invalid regex")
            /\ UNCHANGED <<regex, focus_pod, pods, clients, logs_subs,
                           refresh_event, refresh_pending>>
       ELSE /\ regex' = Compile(payload.pattern).re
            /\ regex_text' = payload.pattern
            /\ focus_pod' = None
            /\ pods' = NoPods
            /\ refresh_event' = TRUE
            /\ refresh_pending' = TRUE
            /\ last' = Label("set_pattern", None, payload, "ok")
            /\ UNCHANGED <<clients, logs_subs>>
    /\ wire' = NoWire
    /\ UNCHANGED <<connVars, http_bc, discVars>>

\* set_pattern has no await: it is one step
set_pattern(payload) ==
    /\ IF ~payload.has \/ payload.pattern = <<>>
       THEN /\ last' = Label("set_pattern", None, payload, "pattern required")
            /\ UNCHANGED <<hubVars, refresh_pending>>
       ELSE IF ~Compile(payload.pattern).ok
       THEN /\ last' = Label("set_pattern", None, payload, "invalid regex")
            /\ UNCHANGED <<hubVars, refresh_pending>>
       ELSE /\ regex' = Compile(payload.pattern).re
            /\ regex_text' = payload.pattern
            /\ focus_pod' = None
            /\ pods' = NoPods
            /\ refresh_event' = TRUE
            /\ refresh_pending' = TRUE
            /\ last' = Label("set_pattern", None, payload, "ok")
            /\ UNCHANGED <<clients, logs_subs>>
    /\ wire' = NoWire
    /\ UNCHANGED <<connVars, http_bc, discVars>>

\* the bug of leaving the focus in place
reset_pattern_nofocus(k) ==
    /\ ~http_bc[k].on
    /\ InFlight < MaxInFlight
    /\ regex' = NoRegex
    /\ regex_text' = None
    /\ pods' = NoPods
    /\ refresh_event' = TRUE
    /\ refresh_pending' = TRUE
    /\ http_bc' = [http_bc EXCEPT ![k] =
           IF clients = {} THEN NoBc ELSE StartBc(AwaitingMsg, clients)]
    /\ last' = Label("reset_pattern", None, NoPayload,
                     IF clients = {} THEN "ok" ELSE "")
    /\ wire' = NoWire
    /\ UNCHANGED <<focus_pod, clients, logs_subs, connVars, discVars>>

\* reset_pattern up to the first send_text of its broadcast
reset_pattern(k) ==
    /\ ~http_bc[k].on
    /\ InFlight < MaxInFlight
    /\ regex' = NoRegex
    /\ regex_text' = None
    /\ focus_pod' = None
    /\ pods' = NoPods
    /\ refresh_event' = TRUE
    /\ refresh_pending' = TRUE
    /\ http_bc' = [http_bc EXCEPT ![k] =
           IF clients = {} THEN NoBc ELSE StartBc(AwaitingMsg, clients)]
    /\ last' = Label("reset_pattern", None, NoPayload,
                     IF clients = {} THEN "ok" ELSE "")
    /\ wire' = NoWire
    /\ UNCHANGED <<clients, logs_subs, connVars, discVars>>

\* One send_text of request k's broadcast; after the last one it responds
ResetSend(k, to) ==
    /\ http_bc[k].on
    /\ to \in http_bc[k].todo
    /\ wire' = Sent(http_bc[k], to)
    /\ LET b == BcAfterSend(http_bc[k], to)
       IN  IF b.todo # {}
           THEN /\ http_bc' = [http_bc EXCEPT ![k] = b]
                /\ last' = Label("send", None, NoPayload, "")
                /\ UNCHANGED clients
           ELSE /\ http_bc' = [http_bc EXCEPT ![k] = NoBc]
                /\ last' = Label("send", None, NoPayload, "ok")
                /\ clients' = clients \ b.dead
    /\ UNCHANGED <<regex, regex_text, focus_pod, pods, logs_subs, refresh_event,
                   connVars, discVars, refresh_pending>>

(***************************************************************************)
(* websocket_endpoint, subscribe on the "pod" channel: the handler sends   *)
(* to its own connection with ws.send_text, outside Hub.broadcast, so a    *)
(* failed send raises out of the receive loop into the finally block.      *)
(***************************************************************************)
\* the summary a subscriber is sent: it has no "pattern" field
SubPodsMsg(pds, focus) ==
    [type |-> "pods", pods |-> Summary(pds), focus |-> focus]

\* the request is received; `if hub.pods:` guards the summary and its send
SubscribePod(o) ==
    /\ Receiving(o)
    /\ IF DOMAIN pods # {}
       THEN /\ wire' = [to |-> o, msg |-> SubPodsMsg(pods, focus_pod),
                        ok |-> SendOk(o)]
            /\ ws_pc' = [ws_pc EXCEPT ![o] = "summary"]
       ELSE /\ wire' = NoWire
            /\ UNCHANGED ws_pc
    /\ last' = Label("subscribe", None, NoPayload, "")
    /\ UNCHANGED <<hubVars, connVars, http_bc, discVars, refresh_pending,
                   streamVars>>

\* the bug of a finally block that leaves the subscriber sets alone
SubscribeDetail_keepsubs(o) ==
    /\ ws_pc[o] = "summary"
    /\ ws_pc' = [ws_pc EXCEPT ![o] = "recv"]
    /\ IF focus_pod # None /\ focus_pod \in DOMAIN pods
       THEN /\ wire' = [to |-> o, msg |-> PodMsg(pods[focus_pod]),
                        ok |-> SendOk(o)]
            /\ IF SendOk(o)
               THEN UNCHANGED <<conn, clients, logs_subs>>
               ELSE /\ conn' = [conn EXCEPT ![o] = "closed"]
                    /\ clients' = clients \ {o}
                    /\ UNCHANGED logs_subs
       ELSE /\ wire' = NoWire
            /\ UNCHANGED <<conn, clients, logs_subs>>
    /\ last' = Label("subscribe_detail", None, NoPayload, "")
    /\ UNCHANGED <<regex, regex_text, focus_pod, pods, refresh_event, ws_bc,
                   http_bc, discVars, refresh_pending, streamVars>>

\* the handler resumes after the summary is sent: the detail of the focus,
\* if there is one now; a send that raises ends the handler in `finally`
SubscribeDetail(o) ==
    /\ ws_pc[o] = "summary"
    /\ ws_pc' = [ws_pc EXCEPT ![o] = "recv"]
    /\ IF focus_pod # None /\ focus_pod \in DOMAIN pods
       THEN /\ wire' = [to |-> o, msg |-> PodMsg(pods[focus_pod]),
                        ok |-> SendOk(o)]
            /\ IF SendOk(o)
               THEN UNCHANGED <<conn, clients, logs_subs>>
               ELSE /\ conn' = [conn EXCEPT ![o] = "closed"]
                    /\ clients' = clients \ {o}
                    /\ logs_subs' =
                         [k \in DOMAIN logs_subs |-> logs_subs[k] \ {o}]
       ELSE /\ wire' = NoWire
            /\ UNCHANGED <<conn, clients, logs_subs>>
    /\ last' = Label("subscribe_detail", None, NoPayload, "")
    /\ UNCHANGED <<regex, regex_text, focus_pod, pods, refresh_event, ws_bc,
                   http_bc, discVars, refresh_pending, streamVars>>

(***************************************************************************)
(* The log stream multiplexer.  stream_log_task ticks every two seconds;   *)
(* follow_logs runs kube.stream_logs, whose _stream function iterates the  *)
(* backend's follow response on a worker thread and hands each line to     *)
(* line_cb, which schedules one _cb coroutine per line on the event loop.  *)
(***************************************************************************)
\* hub.logs_subs.get(key): an absent key and an empty set are both falsy
Subs(key) == IF key \in DOMAIN logs_subs THEN logs_subs[key] ELSE {}

\* a follow_logs call that has just been made: its stop event is clear
NewFollow == [running |-> TRUE, stop |-> FALSE, yielded |-> 0]

\* the lines a follow hands to line_cb: a line of the backend, or the
\* "[log-stream-error] ..." line of the except clause
BackendLine(n) == [err |-> FALSE, n |-> n]
ErrorLine == [err |-> TRUE, n |-> 0]

LogMsg(key, line) ==
    [type |-> "log", pod |-> key[1], container |-> key[2], line |-> line]

\* run_coroutine_threadsafe(_cb(line), loop) by follow i of the key
Scheduled(line, i) == [line |-> line, inst |-> i, sending |-> FALSE, todo |-> {}]

RemoveAt(seq, j) == SubSeq(seq, 1, j - 1) \o SubSeq(seq, j + 1, Len(seq))

\* the keys "<name>::<container>" of the focused pod
FocusKeys ==
    IF focus_pod # None /\ focus_pod \in DOMAIN pods
    THEN { <<pods[focus_pod].name, pods[focus_pod].containers[i].name>> :
             i \in DOMAIN pods[focus_pod].containers }
    ELSE {}

\* the bug of a loop that follows every key that has a subscriber, whichever
\* pod is the focus
LogsTick_anykey ==
    /\ LET start == { k \in StreamKeys : Subs(k) # {} /\ k \notin active }
       IN  /\ follows' = [k \in DOMAIN follows |->
                            IF k \in start THEN Append(follows[k], NewFollow)
                            ELSE follows[k]]
           /\ active' = active \cup start
    /\ last' = Label("logs_tick", None, NoPayload, "")
    /\ wire' = NoWire
    /\ UNCHANGED <<hubVars, connVars, http_bc, discVars, refresh_pending,
                   ws_pc, cbs>>

\* the bug of starting a follow whether or not the key is in `active`
LogsTick_noactive ==
    /\ LET start == { k \in FocusKeys : Subs(k) # {} }
       IN  /\ follows' = [k \in DOMAIN follows |->
                            IF k \in start THEN Append(follows[k], NewFollow)
                            ELSE follows[k]]
           /\ active' = active \cup start
    /\ last' = Label("logs_tick", None, NoPayload, "")
    /\ wire' = NoWire
    /\ UNCHANGED <<hubVars, connVars, http_bc, discVars, refresh_pending,
                   ws_pc, cbs>>

\* one pass of the loop of stream_log_task
LogsTick ==
    /\ LET start == { k \in FocusKeys : Subs(k) # {} /\ k \notin active }
       IN  /\ follows' = [k \in DOMAIN follows |->
                            IF k \in start THEN Append(follows[k], NewFollow)
                            ELSE follows[k]]
           /\ active' = active \cup start
    /\ last' = Label("logs_tick", None, NoPayload, "")
    /\ wire' = NoWire
    /\ UNCHANGED <<hubVars, connVars, http_bc, discVars, refresh_pending,
                   ws_pc, cbs>>

\* the bug of a worker that fans the line out itself: it reads the key's
\* subscriber set from its own thread
ThreadLine_direct(key, i) ==
    /\ i \in DOMAIN follows[key]
    /\ follows[key][i].running
    /\ follows[key][i].stop \/ follows[key][i].yielded < MaxLines
    /\ LET n == follows[key][i].yielded + 1
       IN  IF follows[key][i].stop
           THEN /\ follows' = [follows EXCEPT ![key][i].yielded = n,
                                              ![key][i].running = FALSE]
                /\ UNCHANGED cbs
           ELSE IF Subs(key) = {}
           THEN /\ follows' = [follows EXCEPT ![key][i].yielded = n,
                                              ![key][i].stop = TRUE]
                /\ UNCHANGED cbs
           ELSE /\ follows' = [follows EXCEPT ![key][i].yielded = n]
                /\ cbs' = [cbs EXCEPT ![key] =
                             Append(@, [Scheduled(BackendLine(n), i) EXCEPT
                                          !.sending = TRUE,
                                          !.todo = Subs(key)])]
    /\ last' = Other
    /\ wire' = NoWire
    /\ UNCHANGED <<hubVars, connVars, http_bc, discVars, refresh_pending,
                   ws_pc, active>>

\* _stream: the response yields a line; the thread leaves the loop if the
\* stop event is set, else it hands the line to line_cb.  The backend always
\* has a further line: MaxLines bounds the lines that reach line_cb.
ThreadLine(key, i) ==
    /\ i \in DOMAIN follows[key]
    /\ follows[key][i].running
    /\ follows[key][i].stop \/ follows[key][i].yielded < MaxLines
    /\ LET n == follows[key][i].yielded + 1
       IN  IF follows[key][i].stop
           THEN /\ follows' = [follows EXCEPT ![key][i].yielded = n,
                                              ![key][i].running = FALSE]
                /\ UNCHANGED cbs
           ELSE /\ follows' = [follows EXCEPT ![key][i].yielded = n]
                /\ cbs' = [cbs EXCEPT ![key] =
                             Append(@, Scheduled(BackendLine(n), i))]
    /\ last' = Other
    /\ wire' = NoWire
    /\ UNCHANGED <<hubVars, connVars, http_bc, discVars, refresh_pending,
                   ws_pc, active>>

\* _stream: the response ends (the container is gone)
ThreadEnd(key, i) ==
    /\ i \in DOMAIN follows[key]
    /\ follows[key][i].running
    /\ follows' = [follows EXCEPT ![key][i].running = FALSE]
    /\ last' = Other
    /\ wire' = NoWire
    /\ UNCHANGED <<hubVars, connVars, http_bc, discVars, refresh_pending,
                   ws_pc, active, cbs>>

\* _stream: the log call or the response raises
ThreadError(key, i) ==
    /\ i \in DOMAIN follows[key]
    /\ follows[key][i].running
    /\ follows' = [follows EXCEPT ![key][i].running = FALSE]
    /\ cbs' = [cbs EXCEPT ![key] = Append(@, Scheduled(ErrorLine, i))]
    /\ last' = Other
    /\ wire' = NoWire
    /\ UNCHANGED <<hubVars, connVars, http_bc, discVars, refresh_pending,
                   ws_pc, active>>

\* the coroutines of a key start in the order they were scheduled
NextScheduled(key) ==
    CHOOSE j \in DOMAIN cbs[key] :
        /\ ~cbs[key][j].sending
        /\ \A k \in DOMAIN cbs[key] : ~cbs[key][k].sending => j <= k

\* the bug of a _cb that returns without setting the stop event
CbStart_nostop(key) ==
    /\ \E j \in DOMAIN cbs[key] : ~cbs[key][j].sending
    /\ LET j == NextScheduled(key)
       IN  IF Subs(key) = {}
           THEN /\ cbs' = [cbs EXCEPT ![key] = RemoveAt(@, j)]
                /\ UNCHANGED follows
           ELSE /\ cbs' = [cbs EXCEPT ![key][j].sending = TRUE,
                                      ![key][j].todo = Subs(key)]
                /\ UNCHANGED follows
    /\ last' = Other
    /\ wire' = NoWire
    /\ UNCHANGED <<hubVars, connVars, http_bc, discVars, refresh_pending,
                   ws_pc, active>>

\* _cb starts: with no subscriber it sets the stop event of its follow and
\* returns, else it takes the snapshot list(subs)
CbStart(key) ==
    /\ \E j \in DOMAIN cbs[key] : ~cbs[key][j].sending
    /\ LET j == NextScheduled(key)
       IN  IF Subs(key) = {}
           THEN /\ follows' = [follows EXCEPT ![key][cbs[key][j].inst].stop = TRUE]
                /\ cbs' = [cbs EXCEPT ![key] = RemoveAt(@, j)]
           ELSE /\ cbs' = [cbs EXCEPT ![key][j].sending = TRUE,
                                      ![key][j].todo = Subs(key)]
                /\ UNCHANGED follows
    /\ last' = Other
    /\ wire' = NoWire
    /\ UNCHANGED <<hubVars, connVars, http_bc, discVars, refresh_pending,
                   ws_pc, active>>

\* the bug of giving up the line, and the stream, at the first failed send
CbSend_giveup(key, j, o) ==
    /\ j \in DOMAIN cbs[key]
    /\ cbs[key][j].sending
    /\ o \in cbs[key][j].todo
    /\ wire' = [to |-> o, msg |-> LogMsg(key, cbs[key][j].line), ok |-> SendOk(o)]
    /\ logs_subs' = IF SendOk(o) THEN logs_subs
                    ELSE [logs_subs EXCEPT ![key] = @ \ {o}]
    /\ cbs' = [cbs EXCEPT ![key] =
                 IF cbs[key][j].todo = {o} \/ ~SendOk(o) THEN RemoveAt(@, j)
                 ELSE [@ EXCEPT ![j].todo = @ \ {o}]]
    /\ follows' = IF SendOk(o) THEN follows
                  ELSE [follows EXCEPT ![key][cbs[key][j].inst].stop = TRUE]
    /\ last' = Other
    /\ UNCHANGED <<regex, regex_text, focus_pod, pods, clients, refresh_event,
                   connVars, http_bc, discVars, refresh_pending, ws_pc, active>>

\* one send_text of _cb; a send that raises discards the observer from the
\* key's set; after the last one the coroutine is done
CbSend(key, j, o) ==
    /\ j \in DOMAIN cbs[key]
    /\ cbs[key][j].sending
    /\ o \in cbs[key][j].todo
    /\ wire' = [to |-> o, msg |-> LogMsg(key, cbs[key][j].line), ok |-> SendOk(o)]
    /\ logs_subs' = IF SendOk(o) THEN logs_subs
                    ELSE [logs_subs EXCEPT ![key] = @ \ {o}]
    /\ cbs' = [cbs EXCEPT ![key] =
                 IF cbs[key][j].todo = {o} THEN RemoveAt(@, j)
                 ELSE [@ EXCEPT ![j].todo = @ \ {o}]]
    /\ last' = Other
    /\ UNCHANGED <<regex, regex_text, focus_pod, pods, clients, refresh_event,
                   connVars, http_bc, discVars, refresh_pending, ws_pc, active,
                   follows>>

(***************************************************************************)
(* The unit converter: parse_cpu_value and parse_memory_value of           *)
(* metrics_processing.py, which parse_cpu and parse_mem inside             *)
(* server.metrics_to_view repeat statement for statement.  A quantity is a *)
(* Python str, a sequence of characters; a result is an exact rational     *)
(* num / den in lowest terms (the floats of the code are exact, or exact   *)
(* to the last bit, for the quantities of the model).                      *)
(***************************************************************************)
DigitVal(c) ==
    CASE c = "0" -> 0 [] c = "1" -> 1 [] c = "2" -> 2 [] c = "3" -> 3
      [] c = "4" -> 4 [] c = "5" -> 5 [] c = "6" -> 6 [] c = "7" -> 7
      [] c = "8" -> 8 [] c = "9" -> 9 [] OTHER -> -1

AllDigits(s) == \A i \in DOMAIN s : DigitVal(s[i]) >= 0

RECURSIVE DigitsVal(_)
DigitsVal(s) ==
    IF s = <<>> THEN 0
    ELSE DigitsVal(SubSeq(s, 1, Len(s) - 1)) * 10 + DigitVal(s[Len(s)])

Pow10(k) == IF k = 0 THEN 1 ELSE IF k = 1 THEN 10 ELSE IF k = 2 THEN 100 ELSE 1000

RECURSIVE Gcd(_, _)
Gcd(a, b) == IF b = 0 THEN a ELSE Gcd(b, a % b)

Abs(n) == IF n < 0 THEN -n ELSE n

\* the rational num / den (den > 0) in lowest terms
Rat(num, den) ==
    LET g == Gcd(Abs(num), den)
    IN  [num |-> num \div g, den |-> den \div g]

Zero == Rat(0, 1)

\* a / b (b > 0) rounded to the nearest integer, halves to the even one:
\* what round() does to a float that is exact
RoundDiv(a, b) ==
    LET q == a \div b
        r == a % b
    IN  IF 2 * r > b \/ (2 * r = b /\ q % 2 = 1) THEN q + 1 ELSE q

\* the literal without its sign, and the sign
Unsigned(s) == IF s # <<>> /\ Head(s) = "-" THEN Tail(s) ELSE s
SignOf(s) == IF s # <<>> /\ Head(s) = "-" THEN -1 ELSE 1

\* int(s) for the characters of the model: an optional sign and one or more
\* digits; ok = FALSE stands for ValueError
PyInt(s) ==
    LET body == Unsigned(s)
    IN  IF body # <<>> /\ AllDigits(body)
        THEN [ok |-> TRUE, n |-> SignOf(s) * DigitsVal(body)]
        ELSE [ok |-> FALSE, n |-> 0]

\* float(s) for the characters of the model: an optional sign, digits with
\* at most one point, at least one digit; the value is n / 10^scale
PyFloat(s) ==
    LET body == Unsigned(s)
        dots == { i \in DOMAIN body : body[i] = "." }
        NotDot(c) == c # "."
        digits == SelectSeq(body, NotDot)
        scale == IF dots = {} THEN 0
                 ELSE Len(body) - (CHOOSE i \in dots : TRUE)
    IN  IF Cardinality(dots) <= 1 /\ digits # <<>> /\ AllDigits(digits)
        THEN [ok |-> TRUE, n |-> SignOf(s) * DigitsVal(digits), scale |-> scale]
        ELSE [ok |-> FALSE, n |-> 0, scale |-> 0]

\* value.endswith(suffix); ok = FALSE stands for the AttributeError of a
\* value that is no str
EndsWith(v, suffix) ==
    /\ Len(v) >= Len(suffix)
    /\ SubSeq(v, Len(v) - Len(suffix) + 1, Len(v)) = suffix

\* value[:-k]
DropLast(v, k) == SubSeq(v, 1, Len(v) - k)

\* a value that is no str (None), kept apart from every str by an element
\* that is no character
NoStr == <<"<None>">>

\* parse_cpu_value: millicores; every exception ends in `return 0`
parse_cpu_value(value) ==
    IF value = NoStr THEN Zero
    ELSE IF EndsWith(value, <<"n">>)
    THEN LET i == PyInt(DropLast(value, 1))
         IN  IF i.ok THEN Rat(i.n, 1000000) ELSE Zero
    ELSE IF EndsWith(value, <<"m">>)
    THEN LET i == PyInt(DropLast(value, 1))
         IN  IF i.ok THEN Rat(i.n, 1) ELSE Zero
    ELSE LET f == PyFloat(value)
         IN  IF f.ok THEN Rat(f.n * 1000, Pow10(f.scale)) ELSE Zero

\* the bug of a Ki quantity that is not rounded
parse_memory_value_exact(value) ==
    IF value = NoStr THEN Zero
    ELSE IF EndsWith(value, <<"K", "i">>)
    THEN LET i == PyInt(DropLast(value, 2))
         IN  IF i.ok THEN Rat(i.n, 1024) ELSE Zero
    ELSE IF EndsWith(value, <<"M", "i">>)
    THEN LET f == PyFloat(DropLast(value, 2))
         IN  IF f.ok THEN Rat(f.n, Pow10(f.scale)) ELSE Zero
    ELSE IF EndsWith(value, <<"G", "i">>)
    THEN LET f == PyFloat(DropLast(value, 2))
         IN  IF f.ok THEN Rat(f.n * 1024, Pow10(f.scale)) ELSE Zero
    ELSE IF EndsWith(value, <<"T", "i">>)
    THEN LET f == PyFloat(DropLast(value, 2))
         IN  IF f.ok THEN Rat(f.n * 1048576, Pow10(f.scale)) ELSE Zero
    ELSE Zero

\* parse_memory_value: MiB; every exception ends in `return 0.0`
parse_memory_value(value) ==
    IF value = NoStr THEN Zero
    ELSE IF EndsWith(value, <<"K", "i">>)
    THEN LET i == PyInt(DropLast(value, 2))
         IN  IF i.ok THEN Rat(RoundDiv(i.n * 100, 1024), 100) ELSE Zero
    ELSE IF EndsWith(value, <<"M", "i">>)
    THEN LET f == PyFloat(DropLast(value, 2))
         IN  IF f.ok THEN Rat(f.n, Pow10(f.scale)) ELSE Zero
    ELSE IF EndsWith(value, <<"G", "i">>)
    THEN LET f == PyFloat(DropLast(value, 2))
         IN  IF f.ok THEN Rat(f.n * 1024, Pow10(f.scale)) ELSE Zero
    ELSE IF EndsWith(value, <<"T", "i">>)
    THEN LET f == PyFloat(DropLast(value, 2))
         IN  IF f.ok THEN Rat(f.n * 1048576, Pow10(f.scale)) ELSE Zero
    ELSE Zero

\* The quantities the converter is given: every body of up to MaxBody
\* characters of BodyChars with every suffix of Suffixes, the quantities
\* the specification names, and a value that is no str.
BodyChars == {"0", "1", ".", "-", "x"}

Suffixes ==
    { <<>>, <<"n">>, <<"m">>, <<"K", "i">>, <<"M", "i">>, <<"G", "i">>,
      <<"T", "i">>, <<"k">>, <<"M">> }

NamedQuantities ==
    { <<"5", "0", "0", "m">>, <<"1">>,
      <<"5", "0", "0", "0", "0", "0", "0", "0", "0", "n">>,
      <<"1", "2", "8", "M", "i">>, <<"1", "G", "i">>,
      <<"g", "a", "r", "b", "a", "g", "e">> }

QuantityStrings ==
    { b \o x : b \in UNION { [1..n -> BodyChars] : n \in 0..MaxBody },
               x \in Suffixes } \cup NamedQuantities

\* one call of each converter on the quantity drawn
Convert ==
    /\ calc_in \in QuantityStrings \cup {NoStr}
    /\ calc_out = None
    /\ calc_out' = [cpu |-> parse_cpu_value(calc_in),
                    mem |-> parse_memory_value(calc_in)]
    /\ last' = Other
    /\ wire' = NoWire
    /\ UNCHANGED <<hubVars, connVars, http_bc, discVars, refresh_pending,
                   ws_pc, streamVars, metVars, evVars, calc_in, latest, got>>

(***************************************************************************)
(* The percentages of a container's metrics, as server.metrics_to_view     *)
(* computes them (lines 467-497) and as metrics_processing does            *)
(* (calculate_resource_percentages, process_container_metrics).  An        *)
(* optional number is <<>> for None and <<value>> else; a percentage is    *)
(* kept in tenths.                                                         *)
(***************************************************************************)
\* round((usage / den) * 100, 1), in tenths of a percent; den is not 0
RoundPct(usage, den) ==
    LET a == usage.num * den.den * 1000
        b == usage.den * den.num
    IN  IF b > 0 THEN RoundDiv(a, b) ELSE RoundDiv(-a, -b)

\* `if req_cpu: pct = round(...)`: a number is true unless it is 0
PctIfTrue(usage, den) ==
    IF den # Zero THEN <<RoundPct(usage, den)>> ELSE <<>>

\* calculate_resource_percentages, one denominator at a time
PctIfPositive(usage, den) ==
    IF den # Zero /\ den.num > 0 THEN <<RoundPct(usage, den)>> ELSE <<>>

\* `'cpu' in rq`: a dict of quantities has, for either kind, <<>> for a
\* missing key and <<quantity>> else
Declared(res, kind) == res[kind] # <<>>

NoResources == [cpu |-> <<>>, memory |-> <<>>]

\* one entry of `containers`: usage, the four denominators and the four
\* percentages; `truthy` tells which implementation tests the denominator:
\* server.metrics_to_view by its truth value, metrics_processing by its sign
ContainerMetrics(c, res_map, truthy) ==
    LET cpu_m == parse_cpu_value(c.usage.cpu)
        mem_mib == parse_memory_value(c.usage.memory)
        hit == { i \in DOMAIN res_map : res_map[i].name = c.name }
        entry == res_map[CHOOSE i \in hit : TRUE]
        rq == IF hit # {} THEN entry.requests ELSE NoResources
        lm == IF hit # {} THEN entry.limits ELSE NoResources
        req_cpu == IF Declared(rq, "cpu")
                   THEN <<parse_cpu_value(rq.cpu[1])>> ELSE <<>>
        lim_cpu == IF Declared(lm, "cpu")
                   THEN <<parse_cpu_value(lm.cpu[1])>> ELSE <<>>
        req_mem == IF Declared(rq, "memory")
                   THEN <<parse_memory_value(rq.memory[1])>> ELSE <<>>
        lim_mem == IF Declared(lm, "memory")
                   THEN <<parse_memory_value(lm.memory[1])>> ELSE <<>>
        Slot(usage, den) ==
            IF den = <<>> THEN <<>>
            ELSE IF truthy THEN PctIfTrue(usage, den[1])
            ELSE PctIfPositive(usage, den[1])
    IN  [name |-> c.name, cpu |-> cpu_m, memoryMiB |-> mem_mib,
         cpuRequest |-> req_cpu, cpuLimit |-> lim_cpu,
         memRequestMiB |-> req_mem, memLimitMiB |-> lim_mem,
         cpuPctOfRequest |-> Slot(cpu_m, req_cpu),
         cpuPctOfLimit |-> Slot(cpu_m, lim_cpu),
         memPctOfRequest |-> Slot(mem_mib, req_mem),
         memPctOfLimit |-> Slot(mem_mib, lim_mem)]

\* the entry server.metrics_to_view builds, which poll_metrics publishes
ServerContainer(c, res_map) == ContainerMetrics(c, res_map, TRUE)

\* the entry metrics_processing.process_container_metrics builds
process_container_metrics(c, res_map) ==
    ContainerMetrics(c, res_map, FALSE)

\* The samples and the declared resources the percentages are computed of:
\* the usage of the container "app", and its requests and limits, each
\* declared or not, as zero, positive or negative quantities
UsageSamples ==
    { [name |-> "app", usage |-> [cpu |-> cu, memory |-> mu]] :
        cu \in { <<"5", "0", "m">>, <<"2", "5", "0", "0", "0", "0", "0", "0", "0", "n">> },
        mu \in { <<"6", "4", "M", "i">>, <<"1", "G", "i">> } }

CpuQuantities ==
    { <<"0">>, <<"1", "0", "0", "m">>, <<"2", "0", "0", "m">>,
      <<"3", "0", "0", "m">>, <<"-", "1", "0", "0", "m">> }

MemQuantities ==
    { <<"0">>, <<"1", "2", "8", "M", "i">>, <<"-", "1", "2", "8", "M", "i">> }

\* {'cpu': ..., 'memory': ...} with either key present or not
ResourceDicts ==
    [cpu : {<<>>} \cup { <<q>> : q \in CpuQuantities },
     memory : {<<>>} \cup { <<q>> : q \in MemQuantities }]

\* res_map: no entry for the container, or its requests and limits
ResourceMaps ==
    { <<>> } \cup
    { <<[name |-> "app", requests |-> rq, limits |-> lm]>> :
        rq \in ResourceDicts, lm \in ResourceDicts }

\* one container's entry computed by both implementations
Percentages ==
    /\ calc_in \in [c : UsageSamples, res_map : ResourceMaps]
    /\ calc_out = None
    /\ calc_out' = [view |-> ServerContainer(calc_in.c, calc_in.res_map),
                    lib |-> process_container_metrics(calc_in.c, calc_in.res_map)]
    /\ last' = Other
    /\ wire' = NoWire
    /\ UNCHANGED <<hubVars, connVars, http_bc, discVars, refresh_pending,
                   ws_pc, streamVars, metVars, evVars, calc_in, latest, got>>

(***************************************************************************)
(* poll_metrics.  kube.metrics is the CustomObjectsApi client load_kube    *)
(* always creates, so the loop fetches whenever the focus is set and in    *)
(* the map; a cluster without metrics server shows as a fetch that         *)
(* returns None.  Of a quantity the model keeps the cpu side.              *)
(***************************************************************************)
\* parse_cpu: millicores of a quantity string ("n" -> m, "m", cores -> m)
parse_cpu(v) ==
    IF v.unit = "n" THEN v.n \div 1000000
    ELSE IF v.unit = "m" THEN v.n
    ELSE v.n * 1000

\* round((num / den) * 100, 1), in tenths of a percent, halves to even
Round1(num, den) ==
    LET q == (num * 1000) \div den
        r == (num * 1000) % den
    IN  IF 2 * r > den \/ (2 * r = den /\ q % 2 = 1) THEN q + 1 ELSE q


\* what the metrics API reports for a pod: the usage of its container
UsageOf(nm) ==
    IF nm = Api10 THEN Quantity(100000000, "n")
    ELSE IF nm = Api2 THEN Quantity(300000000, "n")
    ELSE Quantity(50000000, "n")

Sample(nm) ==
    [name |-> nm, containers |-> <<[name |-> "app", cpu |-> UsageOf(nm)]>>]

\* {container: resources} of the pod view, empty without a pod view
ResMap(pod_view) ==
    IF pod_view = None THEN << >>
    ELSE [i \in DOMAIN pod_view.containers |->
            [name |-> pod_view.containers[i].name,
             limit |-> pod_view.containers[i].limit]]

MetricsContainer(c, res_map) ==
    LET cpu_m == parse_cpu(c.cpu)
        hit == { i \in DOMAIN res_map : res_map[i].name = c.name }
        lim_cpu == IF hit = {} THEN <<>>
                   ELSE <<parse_cpu(res_map[CHOOSE i \in hit : TRUE].limit)>>
    IN  \* cpuLimit and cpuPctOfLimit: <<>> for None, else <<value>>
        [name |-> c.name, cpu |-> cpu_m, cpuLimit |-> lim_cpu,
         cpuPctOfLimit |-> IF lim_cpu = <<>> \/ lim_cpu = <<0>> THEN <<>>
                           ELSE <<Round1(cpu_m, lim_cpu[1])>>]

metrics_to_view(m, pod_view) ==
    [containers |-> [i \in DOMAIN m.containers |->
                       MetricsContainer(m.containers[i], ResMap(pod_view))]]

MetricsMsg(data) == [type |-> "metrics", data |-> data]
DisabledMsg == MetricsMsg([disabled |-> TRUE])

\* what fetch_metrics comes back with: a sample, None (404 or any other
\* exception in _get), or an ApiException it lets through
FetchOutcomes == {"sample", "none", "error"}

\* hub.pods.get(hub.focus_pod)
PodsGet(pds, focus) ==
    IF focus # None /\ focus \in DOMAIN pds THEN pds[focus] ELSE None

\* the bug of publishing a result whatever the fetch came back with
MetricsResult_nomarker(outcome, nm, focus, pds) ==
    MetricsMsg(metrics_to_view(Sample(nm), PodsGet(pds, focus)))

\* the message of the cycle: lines 201-208, with the focus and the map as
\* they are when the fetch returns
MetricsResult(outcome, nm, focus, pds) ==
    IF outcome = "sample"
    THEN MetricsMsg(metrics_to_view(Sample(nm), PodsGet(pds, focus)))
    ELSE DisabledMsg

MetricsPublish(msg, cl) ==
    IF cl = {} THEN [pc |-> "sleep", bc |-> NoBc]
    ELSE [pc |-> "send", bc |-> StartBc(msg, cl)]

\* the bug of fetching for the first entity of the map
MetricsTick_first ==
    /\ met_pc = "sleep"
    /\ IF pods # NoPods
       THEN LET n == SortedFirst(DOMAIN pods)
            IN  /\ met_pc' = "fetch"
                /\ met_req' = [namespace |-> pods[n].namespace,
                               name |-> pods[n].name]
       ELSE UNCHANGED <<met_pc, met_req>>
    /\ last' = Label("metrics_tick", focus_pod, NoPayload, "")
    /\ wire' = NoWire
    /\ UNCHANGED <<hubVars, connVars, http_bc, discVars, refresh_pending,
                   ws_pc, streamVars, met_bc, evVars,
                   auxVars>>

\* asyncio.sleep(metrics_interval) is over: the loop tests the focus and
\* issues the fetch, or sleeps again
MetricsTick ==
    /\ met_pc = "sleep"
    /\ IF focus_pod # None /\ focus_pod \in DOMAIN pods
       THEN /\ met_pc' = "fetch"
            /\ met_req' = [namespace |-> pods[focus_pod].namespace,
                           name |-> pods[focus_pod].name]
       ELSE UNCHANGED <<met_pc, met_req>>
    /\ last' = Label("metrics_tick", focus_pod, NoPayload, "")
    /\ wire' = NoWire
    /\ UNCHANGED <<hubVars, connVars, http_bc, discVars, refresh_pending,
                   ws_pc, streamVars, met_bc, evVars,
                   auxVars>>

\* await fetch_metrics returns; the cycle runs to the first send_text of
\* its broadcast or, with no observer, to the sleep
MetricsFetched(outcome) ==
    /\ met_pc = "fetch"
    /\ LET msg == MetricsResult(outcome, met_req.name, focus_pod, pods)
           next == MetricsPublish(msg, clients)
       IN  /\ met_pc' = next.pc
           /\ met_bc' = next.bc
    /\ met_req' = None
    /\ last' = Label("metrics", met_req.name, NoPayload, outcome)
    /\ wire' = NoWire
    /\ UNCHANGED <<hubVars, connVars, http_bc, discVars, refresh_pending,
                   ws_pc, streamVars, evVars,
                   auxVars>>

\* One send_text of the broadcast poll_metrics awaits
MetricsSend(o) ==
    /\ met_pc = "send"
    /\ o \in met_bc.todo
    /\ wire' = Sent(met_bc, o)
    /\ LET b == BcAfterSend(met_bc, o)
       IN  IF b.todo # {}
           THEN /\ met_bc' = b
                /\ UNCHANGED <<met_pc, clients>>
           ELSE /\ clients' = clients \ b.dead
                /\ met_pc' = "sleep"
                /\ met_bc' = NoBc
    /\ last' = Label("send", None, NoPayload, "")
    /\ UNCHANGED <<regex, regex_text, focus_pod, pods, logs_subs, refresh_event,
                   connVars, http_bc, discVars, refresh_pending, ws_pc,
                   streamVars, met_req, evVars,
                   auxVars>>

(***************************************************************************)
(* poll_events.  SEEN_MAX and SEEN_TTL (5000 entries, 3600 s) are scaled   *)
(* to SeenMax and SeenTTL, and time.time() to a clock of whole ticks.      *)
(***************************************************************************)
\* regarding.uid of an event that names no uid; an event without uid of
\* its own has the uid None
NoUid == ""

EventUid(i) == <<"e", i>>

\* the events of the namespace that regard pods of the listing: event i
\* regards api-10 by uid and name, api-10 by name only, or api-2
GoodEvent(i) ==
    [uid |-> EventUid(i),
     r_name |-> IF i % 3 = 0 THEN Api2 ELSE Api10,
     r_uid |-> IF i % 3 = 0 THEN "uid-api-2"
               ELSE IF i % 3 = 1 THEN "uid-api-10" ELSE NoUid]

\* the backend's events, in the order it lists them: SeenMax + 1 events
\* for pods, then an event without uid, one without target name and one
\* that regards a pod the filter does not find
NumGood == SeenMax + 1

EventPool ==
    [i \in 1..NumGood |-> GoodEvent(i)] \o
    << [uid |-> None, r_name |-> Api10, r_uid |-> "uid-api-10"],
       [uid |-> <<"b", 2>>, r_name |-> None, r_uid |-> "uid-api-10"],
       [uid |-> <<"b", 3>>, r_name |-> Web1, r_uid |-> "uid-web-1"] >>

RECURSIVE Pick(_, _)
\* the events of the pool at the indices idx, in the pool's order
Pick(idx, from) ==
    IF from > Len(EventPool) THEN <<>>
    ELSE IF from \in idx THEN <<EventPool[from]>> \o Pick(idx, from + 1)
    ELSE Pick(idx, from + 1)

\* what a list call of events returns: None on an API error, else items
EventResults ==
    { [ok |-> FALSE, items |-> <<>>] } \cup
    { [ok |-> TRUE, items |-> Pick(idx, 1)] :
        idx \in { s \in SUBSET DOMAIN EventPool : Cardinality(s) <= MaxListLen } }

EventMsg(e) == [type |-> "event", data |-> [pod |-> e.r_name]]

SeenIds(sn) == { sn[i].uid : i \in DOMAIN sn }

\* the bug of publishing an event whose uid is in the seen dict
Accept_nodedup(e, sn, cyc) ==
    /\ e.uid # None
    /\ e.r_name # None
    /\ (e.r_uid \in cyc.uids \/ e.r_name \in cyc.names)

\* the tests of lines 249-264 that an event passes to be published
Accept(e, sn, cyc) ==
    /\ e.uid # None
    /\ e.uid \notin SeenIds(sn)
    /\ e.r_name # None
    /\ (e.r_uid \in cyc.uids \/ e.r_name \in cyc.names)

RECURSIVE Scan(_, _, _, _, _)
\* The loop over the items, from the first of `items` to the first
\* send_text of a broadcast (a broadcast to an empty registry awaits
\* nothing): the seen dict, the items left, the broadcast begun and the uids
\* published on the way.
Scan(items, sn, cyc, ts, cl) ==
    IF items = <<>>
    THEN [seen |-> sn, rest |-> <<>>, bc |-> NoBc, pubs |-> {}]
    ELSE LET e == Head(items)
             sn2 == Append(sn, [uid |-> e.uid, ts |-> ts])
         IN  IF ~Accept(e, sn, cyc)
             THEN Scan(Tail(items), sn, cyc, ts, cl)
             ELSE IF cl = {}
             THEN LET r == Scan(Tail(items), sn2, cyc, ts, cl)
                  IN  [r EXCEPT !.pubs = @ \cup {e.uid}]
             ELSE [seen |-> sn2, rest |-> Tail(items),
                   bc |-> StartBc(EventMsg(e), cl), pubs |-> {e.uid}]

RECURSIVE DropOldest(_, _)
\* pops the first k of sorted(seen.items(), key=first-seen): the sort is
\* stable, so of entries of one age the one inserted earlier goes first
DropOldest(sn, k) ==
    IF k = 0 THEN sn
    ELSE LET i == CHOOSE i \in DOMAIN sn :
                    /\ \A j \in DOMAIN sn : sn[i].ts <= sn[j].ts
                    /\ \A j \in 1..(i - 1) : sn[i].ts < sn[j].ts
         IN  DropOldest(RemoveAt(sn, i), k - 1)

\* the bug of an eviction that stops after the expired entries
Prune_ttlonly(sn, t) ==
    LET Kept(e) == ~(e.ts < t - SeenTTL)
    IN  IF Len(sn) > SeenMax THEN SelectSeq(sn, Kept) ELSE sn

\* prune seen, lines 284-293, at time t
Prune(sn, t) ==
    LET Kept(e) == ~(e.ts < t - SeenTTL)
        s1 == SelectSeq(sn, Kept)
    IN  IF Len(sn) > SeenMax
        THEN IF Len(s1) > SeenMax THEN DropOldest(s1, Len(s1) - SeenMax)
             ELSE s1
        ELSE sn

\* time passes
Tick ==
    /\ now < MaxTime
    /\ now' = now + 1
    /\ last' = Other
    /\ wire' = NoWire
    /\ UNCHANGED <<hubVars, connVars, http_bc, discVars, refresh_pending,
                   ws_pc, streamVars, metVars, auxVars, ev_pc, ev_cycle,
                   ev_bc, seen,
                   published>>

\* asyncio.sleep(6) is over: with a non-empty map the loop takes the
\* namespace of the entry hub.pods lists first (no namespace scope is
\* configured), pod_uids and pod_names and makes the list call of
\* events.k8s.io.  The dict lists first the entry inserted first, the first
\* pod of the listing that the filter found; the map of the model keeps no
\* insertion order, so any entry may be that one.
EvTick ==
    /\ ev_pc = "sleep"
    /\ IF pods # NoPods
       THEN /\ ev_pc' = "list_v1"
            /\ \E first \in DOMAIN pods :
                 ev_cycle' = [ns |-> pods[first].namespace,
                              uids |-> { pods[n].uid : n \in DOMAIN pods },
                              names |-> { pods[n].name : n \in DOMAIN pods },
                              ts |-> 0, rest |-> <<>>]
       ELSE UNCHANGED <<ev_pc, ev_cycle>>
    /\ last' = Label("events_tick", None, NoPayload, "")
    /\ wire' = NoWire
    /\ UNCHANGED <<hubVars, connVars, http_bc, discVars, refresh_pending,
                   ws_pc, streamVars, metVars, auxVars, ev_bc, seen, now,
                   published>>

\* The cycle from the item loop on, where the scan has come to `r`: into
\* the first send_text of a broadcast, or through the prune to the sleep.
EvContinue(r, ts, listed) ==
    /\ IF r.bc.on
       THEN /\ seen' = r.seen
            /\ ev_pc' = "send"
            /\ ev_cycle' = [ev_cycle EXCEPT !.ts = ts, !.rest = r.rest]
       ELSE /\ seen' = Prune(r.seen, now)
            /\ ev_pc' = "sleep"
            /\ ev_cycle' = NoCycle
    /\ ev_bc' = r.bc
    /\ published' = [u \in DOMAIN published \cup r.pubs |->
                       IF u \in r.pubs
                       THEN [at |-> now, again |-> u \in DOMAIN published]
                       ELSE published[u]]
    /\ last' = [Label("events", None, NoPayload, r.pubs) EXCEPT !.plist = listed]

\* the list call of events.k8s.io returns: without items the loop makes
\* the list call of the core API, else now_ts is taken and the items run
EvListedV1(res) ==
    /\ ev_pc = "list_v1"
    /\ IF ~res.ok \/ res.items = <<>>
       THEN /\ ev_pc' = "list_core"
            /\ last' = Label("events_list", None, NoPayload, "")
            /\ UNCHANGED <<ev_cycle, ev_bc, seen, published>>
       ELSE EvContinue(Scan(res.items, seen, ev_cycle, now, clients), now, res)
    /\ wire' = NoWire
    /\ UNCHANGED <<hubVars, connVars, http_bc, discVars, refresh_pending,
                   ws_pc, streamVars, metVars, auxVars, now>>

\* the list call of the core API returns
EvListedCore(res) ==
    /\ ev_pc = "list_core"
    /\ EvContinue(Scan(res.items, seen, ev_cycle, now, clients), now, res)
    /\ wire' = NoWire
    /\ UNCHANGED <<hubVars, connVars, http_bc, discVars, refresh_pending,
                   ws_pc, streamVars, metVars, auxVars, now>>

\* One send_text of the broadcast poll_events awaits; after the last one
\* the item loop goes on
EvSend(o) ==
    /\ ev_pc = "send"
    /\ o \in ev_bc.todo
    /\ wire' = Sent(ev_bc, o)
    /\ LET b == BcAfterSend(ev_bc, o)
           cl == clients \ b.dead
       IN  IF b.todo # {}
           THEN /\ ev_bc' = b
                /\ last' = Label("send", None, NoPayload, "")
                /\ UNCHANGED <<clients, ev_pc, ev_cycle, seen, published>>
           ELSE /\ clients' = cl
                /\ EvContinue(Scan(ev_cycle.rest, seen, ev_cycle, ev_cycle.ts, cl),
                              ev_cycle.ts, NoList)
    /\ UNCHANGED <<regex, regex_text, focus_pod, pods, logs_subs, refresh_event,
                   connVars, http_bc, discVars, refresh_pending, ws_pc,
                   streamVars, metVars, auxVars, now>>

(***************************************************************************)
(* The system.  Spec is the Hub with its discovery loop, the focus         *)
(* requests and the requests that change the filter; no log stream runs in *)
(* it and no observer subscribes to a log key.  SpecSubs is the same Hub   *)
(* with log subscriptions in place of the focus requests.                  *)
(***************************************************************************)
\* a step that leaves the handlers' positions and the streams as they are
Idle == UNCHANGED <<ws_pc, streamVars, metVars, evVars, auxVars>>

\* a step of the handlers' log requests or of the logs loop leaves
\* poll_metrics and poll_events where they are
Quiet == UNCHANGED <<metVars, evVars, auxVars>>

Next ==
    \/ Idle /\ \E res \in ListResults : ListDone(res)
    \/ Idle /\ \E o \in Observers : DiscSend(o)
    \/ Idle /\ DiscWake
    \/ Idle /\ DiscTimeout
    \/ Idle /\ \E o \in Observers : Connect(o)
    \/ Idle /\ \E o \in Observers, pod \in FocusRequests : Focus(o, pod)
    \/ Idle /\ \E o \in Observers, to \in Observers : WsSend(o, to)
    \/ Idle /\ \E o \in Observers : Drop(o)
    \/ Idle /\ \E o \in Observers : Disconnect(o)
    \/ Idle /\ \E payload \in Payloads : set_pattern(payload)
    \/ Idle /\ \E k \in ResetSlots : reset_pattern(k)
    \/ Idle /\ \E k \in ResetSlots, to \in Observers : ResetSend(k, to)

Spec == Init /\ [][Next]_vars

NextSubs ==
    \/ Idle /\ \E res \in ListResults : ListDone(res)
    \/ Idle /\ \E o \in Observers : DiscSend(o)
    \/ Idle /\ DiscWake
    \/ Idle /\ DiscTimeout
    \/ Idle /\ \E o \in Observers : Connect(o)
    \/ Idle /\ \E o \in Observers, key \in LogKeys : SubscribeLogs(o, key)
    \/ Idle /\ \E o \in Observers : Drop(o)
    \/ Idle /\ \E o \in Observers : Disconnect(o)
    \/ Idle /\ \E payload \in Payloads : set_pattern(payload)
    \/ Idle /\ \E k \in ResetSlots : reset_pattern(k)
    \/ Idle /\ \E k \in ResetSlots, to \in Observers : ResetSend(k, to)

SpecSubs == Init /\ [][NextSubs]_vars

(***************************************************************************)
(* SpecHandler and SpecLogs run over a backend whose pod listing stays as  *)
(* the first discovery cycle found it: the filter is ^api- and the listing *)
(* holds api-10 and api-2, or web-1 only (an empty map).  Every later      *)
(* discovery cycle then finds nothing changed and sends nothing, so        *)
(* refresh_pods stays out of the picture.                                  *)
(***************************************************************************)
RawOf(n) == CHOOSE p \in RawPods : p.name = n

StableListings == { <<RawOf(Api10), RawOf(Api2)>>, <<RawOf(Web1)>> }

InitOver(listings) ==
    /\ regex = Compile(PatApi).re
    /\ regex_text = PatApi
    /\ \E items \in listings :
         /\ pods = PodsView(regex, items)
         /\ focus_pod = ReconcileFocus(None, pods)
    /\ clients = {}
    /\ logs_subs = [k \in StreamKeys |-> {}]
    /\ refresh_event = FALSE
    /\ conn = [o \in Observers |-> "none"]
    /\ ws_bc = [o \in Observers |-> NoBc]
    /\ http_bc = [k \in ResetSlots |-> NoBc]
    /\ disc_pc = "wait"
    /\ disc_bc = NoBc
    /\ refresh_pending = FALSE
    /\ last = Other
    /\ wire = NoWire
    /\ ws_pc = [o \in Observers |-> "recv"]
    /\ active = {}
    /\ follows = [k \in StreamKeys |-> <<>>]
    /\ cbs = [k \in StreamKeys |-> <<>>]
    /\ LoopsInit
    /\ HistInit

InitStable == InitOver(StableListings)

InitLogs == InitStable /\ CalcInit

\* the steps of the connections and of the handlers' focus and logs
\* requests, where observers subscribe to the keys `keys`
HandlerStep(keys) ==
    \/ Idle /\ \E o \in Observers : Connect(o)
    \/ Idle /\ \E o \in Observers, key \in keys : SubscribeLogs(o, key)
    \/ Idle /\ \E o \in Observers, pod \in FocusRequests : Focus(o, pod)
    \/ Idle /\ \E o \in Observers, to \in Observers : WsSend(o, to)
    \/ Idle /\ \E o \in Observers : Drop(o)
    \/ Idle /\ \E o \in Observers : Disconnect(o)

\* SpecHandler: the WebSocket handler with all its requests; no logs loop
NextHandler ==
    \/ HandlerStep(StreamKeys)
    \/ Quiet /\ \E o \in Observers : SubscribePod(o)
    \/ Quiet /\ \E o \in Observers : SubscribeDetail(o)

SpecHandler == InitLogs /\ [][NextHandler]_vars

\* the logs loop, the worker threads and the _cb coroutines
StreamStep ==
    \/ Quiet /\ LogsTick
    \/ Quiet /\ \E key \in StreamKeys : \E i \in DOMAIN follows[key] :
         ThreadLine(key, i)
    \/ Quiet /\ \E key \in StreamKeys : \E i \in DOMAIN follows[key] :
         ThreadEnd(key, i)
    \/ Quiet /\ \E key \in StreamKeys : \E i \in DOMAIN follows[key] :
         ThreadError(key, i)
    \/ Quiet /\ \E key \in StreamKeys : CbStart(key)
    \/ Quiet /\ \E key \in StreamKeys : \E j \in DOMAIN cbs[key], o \in Observers :
         CbSend(key, j, o)

\* SpecLogs: the log stream multiplexer, with observers that subscribe to
\* the logs of api-10 and move the focus
NextLogs ==
    \/ HandlerStep(LogKeys)
    \/ StreamStep

SpecLogs == InitLogs /\ [][NextLogs]_vars

\* SpecLogsFair: the event loop runs every coroutine that is ready, and a
\* backend that has a line to deliver delivers it
FairLogs ==
    /\ \A key \in StreamKeys : WF_vars(Quiet /\ CbStart(key))
    /\ \A key \in StreamKeys :
         WF_vars(Quiet /\ \E j \in DOMAIN cbs[key], o \in Observers :
                            CbSend(key, j, o))
    /\ \A key \in StreamKeys :
         WF_vars(Quiet /\ \E i \in DOMAIN follows[key] : ThreadLine(key, i))

SpecLogsFair == SpecLogs /\ FairLogs

\* SpecLoop: the logs loop and the worker threads of the follows it starts,
\* beside observers that subscribe to the logs of api-10 and of api-2,
\* whichever pod is the focus.  The _cb coroutines the threads schedule are
\* left waiting: SpecLogs runs them.
NextLoop ==
    \/ HandlerStep(StreamKeys)
    \/ Quiet /\ LogsTick
    \/ Quiet /\ \E key \in StreamKeys : \E i \in DOMAIN follows[key] :
         ThreadLine(key, i)
    \/ Quiet /\ \E key \in StreamKeys : \E i \in DOMAIN follows[key] :
         ThreadEnd(key, i)

SpecLoop == InitLogs /\ [][NextLoop]_vars

(***************************************************************************)
(* SpecOrder: one log stream and its _cb coroutines beside observers that  *)
(* subscribe and leave, with the number of the line each observer was sent *)
(* last kept in `got`.  Of the interleavings of SpecLogs it keeps those in *)
(* which two coroutines that send to the same subscribers do so in turn.   *)
(***************************************************************************)
\* Coroutine i of the key started before coroutine j and has still to send
\* to o.  It can be suspended in a send to another subscriber only if it has
\* one to send to that j has not: both iterate list(subs) of the same set,
\* so over the same subscribers they go in the same order, and the event
\* loop resumes them in the order they were suspended.
BusyElsewhere(key, i, j, o) ==
    \E q \in cbs[key][i].todo : q # o /\ q \notin cbs[key][j].todo

\* the sends of coroutine j to o that the event loop can run: no coroutine
\* that started earlier is itself in its send to o
InTurn(key, j, o) ==
    \A i \in 1..(j - 1) :
        (cbs[key][i].sending /\ o \in cbs[key][i].todo)
        => BusyElsewhere(key, i, j, o)

\* ws.send_text(msg) of _cb returns: the observer has the line
CbSendGot(key, j, o) ==
    /\ InTurn(key, j, o)
    /\ CbSend(key, j, o)
    /\ got' = IF SendOk(o) /\ ~cbs[key][j].line.err
              THEN [got EXCEPT ![o] = cbs[key][j].line.n]
              ELSE got
    /\ UNCHANGED <<metVars, evVars, calc_in, calc_out, latest>>

NextOrder ==
    \/ Idle /\ \E o \in Observers : Connect(o)
    \/ Idle /\ \E o \in Observers, key \in LogKeys : SubscribeLogs(o, key)
    \/ Idle /\ \E o \in Observers : Drop(o)
    \/ Idle /\ \E o \in Observers : Disconnect(o)
    \/ Quiet /\ LogsTick
    \/ Quiet /\ \E key \in StreamKeys : \E i \in DOMAIN follows[key] :
         ThreadLine(key, i)
    \/ Quiet /\ \E key \in StreamKeys : CbStart(key)
    \/ \E key \in StreamKeys : \E j \in DOMAIN cbs[key], o \in Observers :
         CbSendGot(key, j, o)

SpecOrder == InitLogs /\ [][NextOrder]_vars

(***************************************************************************)
(* SpecView: refresh_pods beside the set_pattern requests, with the pods   *)
(* of the summary that refresh_pods handed to hub.broadcast last kept in   *)
(* `latest`.                                                               *)
(***************************************************************************)
\* refresh_pods reaches the broadcast of the summary: the map is installed,
\* no view raised, and `changed` is true
Publishes(res) ==
    /\ Installs(res, regex)
    /\ ~BuildRaises(regex, res.items)
    /\ Changed(DOMAIN pods, focus_pod, PodsView(regex, res.items))

ListDoneView(res) ==
    /\ ListDone(res)
    /\ latest' = IF Publishes(res)
                 THEN [pods |-> DOMAIN PodsView(regex, res.items), any |-> TRUE]
                 ELSE latest
    /\ UNCHANGED <<ws_pc, streamVars, metVars, evVars, calc_in, calc_out, got>>

NextView ==
    \/ \E res \in ListResults : ListDoneView(res)
    \/ Idle /\ \E o \in Observers : DiscSend(o)
    \/ Idle /\ DiscWake
    \/ Idle /\ DiscTimeout
    \/ Idle /\ \E o \in Observers : Connect(o)
    \/ Idle /\ \E o \in Observers : Drop(o)
    \/ Idle /\ \E payload \in Payloads : set_pattern(payload)

SpecView == Init /\ [][NextView]_vars

(***************************************************************************)
(* SpecMetrics: poll_metrics beside the observers' focus requests and the  *)
(* set_pattern requests, over the map the first discovery cycle installed. *)
(***************************************************************************)
NextMetrics ==
    \/ Idle /\ \E o \in Observers : Connect(o)
    \/ Idle /\ \E o \in Observers, pod \in FocusRequests : Focus(o, pod)
    \/ Idle /\ \E o \in Observers, to \in Observers : WsSend(o, to)
    \/ Idle /\ \E o \in Observers : Drop(o)
    \/ Idle /\ \E o \in Observers : Disconnect(o)
    \/ Idle /\ \E payload \in Payloads : set_pattern(payload)
    \/ MetricsTick
    \/ \E outcome \in FetchOutcomes : MetricsFetched(outcome)
    \/ \E o \in Observers : MetricsSend(o)

SpecMetrics == InitLogs /\ [][NextMetrics]_vars

(***************************************************************************)
(* SpecEvents: poll_events beside connecting observers and a set_pattern   *)
(* request that sets the filter again, over the map the first discovery    *)
(* cycle installed, while time passes.                                     *)
(***************************************************************************)
SamePattern == [has |-> TRUE, pattern |-> PatApi]

NextEvents ==
    \/ Idle /\ \E o \in Observers : Connect(o)
    \/ Idle /\ set_pattern(SamePattern)
    \/ Tick
    \/ EvTick
    \/ \E res \in EventResults : EvListedV1(res)
    \/ \E res \in EventResults : EvListedCore(res)
    \/ \E o \in Observers : EvSend(o)

SpecEvents == InitLogs /\ [][NextEvents]_vars

(***************************************************************************)
(* SpecBuild: the discovery loop over a backend that also lists raw pods   *)
(* which pod_to_view cannot process in full: api-10 with an env entry      *)
(* whose processing raises, api-2 with a container status without state.  *)
(* The filter is ^api- and stays.                                          *)
(***************************************************************************)
EnvEntry(name, ok) == [name |-> name, ok |-> ok]

FaultyPods ==
    { RawPod(Api10, "uid-api-10",
             RawContainer("running",
                          <<EnvEntry("MODE", TRUE), EnvEntry("TOKEN", FALSE)>>,
                          Quantity(200, "m"))),
      RawPod(Api2, "uid-api-2",
             RawContainer("absent", <<>>, Quantity(400, "m"))) }

BuildListings ==
    { s \in UNION { [1..n -> RawPods \cup FaultyPods] : n \in 0..MaxListLen } :
        \A i, j \in DOMAIN s : i # j => s[i].name # s[j].name }

BuildResults ==
    { [ok |-> FALSE, items |-> <<>>] } \cup
    { [ok |-> TRUE, items |-> s] : s \in BuildListings }

InitBuild == Init /\ regex.set

NextBuild ==
    \/ Idle /\ \E res \in BuildResults : ListDone(res)
    \/ Idle /\ \E o \in Observers : DiscSend(o)
    \/ Idle /\ DiscTimeout
    \/ Idle /\ \E o \in Observers : Connect(o)
    \/ Idle /\ \E o \in Observers : Drop(o)

SpecBuild == InitBuild /\ [][NextBuild]_vars

(***************************************************************************)
(* SpecUnits: the unit converter called on one quantity.                   *)
(***************************************************************************)
InitUnits ==
    /\ InitStable
    /\ calc_in \in QuantityStrings \cup {NoStr}
    /\ calc_out = None

NextUnits == Convert

SpecUnits == InitUnits /\ [][NextUnits]_vars

(***************************************************************************)
(* SpecPercent: the percentages of one container's metrics.                *)
(***************************************************************************)
InitPercent ==
    /\ InitStable
    /\ calc_in \in [c : UsageSamples, res_map : ResourceMaps]
    /\ calc_out = None

NextPercent == Percentages

SpecPercent == InitPercent /\ [][NextPercent]_vars

(***************************************************************************)
(* SpecNs: the discovery loop with no namespace scope configured, over a   *)
(* backend with a second namespace: list_pod_for_all_namespaces also lists *)
(* a pod api-2 of the namespace dev.  The filter is ^api- and stays.       *)
(***************************************************************************)
DevPod ==
    [RawPod(Api2, "uid-api-2-dev",
            RawContainer("running", <<>>, Quantity(400, "m")))
       EXCEPT !.namespace = "dev"]

NsListings ==
    { s \in UNION { [1..n -> RawPods \cup {DevPod}] : n \in 0..MaxListLen } :
        \A i, j \in DOMAIN s : i # j => s[i] # s[j] }

NsResults ==
    { [ok |-> FALSE, items |-> <<>>] } \cup
    { [ok |-> TRUE, items |-> s] : s \in NsListings }

NextNs ==
    \/ Idle /\ \E res \in NsResults : ListDone(res)
    \/ Idle /\ \E o \in Observers : DiscSend(o)
    \/ Idle /\ DiscTimeout
    \/ Idle /\ \E o \in Observers : Connect(o)
    \/ Idle /\ \E o \in Observers : Drop(o)

SpecNs == InitBuild /\ [][NextNs]_vars

(***************************************************************************)
(* SpecEventsNs: poll_events with no namespace scope configured, over a    *)
(* map with entities of two namespaces, api-10 of prod and api-2 of dev,   *)
(* and a backend that has one event for each.  list_namespaced_event       *)
(* returns events of the namespace it is called for.                       *)
(***************************************************************************)
NsEvents ==
    << [uid |-> <<"n", 1>>, r_name |-> Api10, r_uid |-> "uid-api-10",
        ns |-> "prod"],
       [uid |-> <<"n", 2>>, r_name |-> Api2, r_uid |-> "uid-api-2-dev",
        ns |-> "dev"] >>

\* the events of a namespace, in the backend's order
EventsIn(ns) ==
    LET InNs(e) == e.ns = ns
    IN  SelectSeq(NsEvents, InNs)

\* what a list call for the namespace returns: None on an API error, no
\* items, or the events of the namespace
NsEventResults(ns) ==
    { [ok |-> FALSE, items |-> <<>>], [ok |-> TRUE, items |-> <<>>],
      [ok |-> TRUE, items |-> EventsIn(ns)] }

InitEventsNs == InitOver({ <<RawOf(Api10), DevPod>> }) /\ CalcInit

\* a list call that the backend answers with the events of the namespace
EvListedAll ==
    \/ EvListedV1([ok |-> TRUE, items |-> EventsIn(ev_cycle.ns)])
    \/ EvListedCore([ok |-> TRUE, items |-> EventsIn(ev_cycle.ns)])

NextEventsNs ==
    \/ Idle /\ \E o \in Observers : Connect(o)
    \/ Idle /\ \E o \in Observers : Drop(o)
    \/ EvTick
    \/ \E res \in NsEventResults(ev_cycle.ns) : EvListedV1(res)
    \/ \E res \in NsEventResults(ev_cycle.ns) : EvListedCore(res)
    \/ \E o \in Observers : EvSend(o)

SpecEventsNs == InitEventsNs /\ [][NextEventsNs]_vars

\* SpecEventsNsFair: the event loop runs poll_events whenever it is ready,
\* and of the list calls made again and again the backend answers some in
\* full
FairEventsNs ==
    /\ WF_vars(EvTick)
    /\ WF_vars(\E o \in Observers : EvSend(o))
    /\ WF_vars(\E res \in NsEventResults(ev_cycle.ns) : EvListedV1(res))
    /\ WF_vars(\E res \in NsEventResults(ev_cycle.ns) : EvListedCore(res))
    /\ SF_vars(EvListedAll)

SpecEventsNsFair == SpecEventsNs /\ FairEventsNs


(***************************************************************************)
(* Properties.                                                             *)
(***************************************************************************)
\* A discovery cycle that installed a new map: the list call succeeded with
\* items and a filter was set (the step leaves the filter as it is).
InstalledBy(step) == step.op = "discover" /\ Installs(step.plist, regex)

\* the names of a listing that the filter finds
Matching(re, items) ==
    { n \in { items[i].name : i \in DOMAIN items } : Search(re, n) }

\* C1: in every reachable state the Focus is none or a key of the Canonical
\* Map.
C1_FocusInMap == focus_pod = None \/ focus_pod \in DOMAIN pods

\* a focus request moved the Focus off the smallest key while a list call
\* is in flight
C1_Witness ==
    /\ focus_pod = Api2
    /\ DOMAIN pods = {Api10, Api2}
    /\ disc_pc = "list"
    /\ clients # {}

\* C2: a discovery cycle that installs a map and finds the Focus unset or
\* not a key of it leaves the Focus on the lexicographically smallest key of
\* the new map, or on none when the new map is empty.
C2_FocusReconciled ==
    [][ (InstalledBy(last') /\ (focus_pod = None \/ focus_pod \notin DOMAIN pods'))
        => IF DOMAIN pods' = {}
           THEN focus_pod' = None
           ELSE /\ focus_pod' \in DOMAIN pods'
                /\ \A k \in DOMAIN pods' : k = focus_pod' \/ StrLess(focus_pod', k)
      ]_vars

\* a cycle found no Focus and a new map of two keys, and chose api-10
C2_Witness ==
    /\ last.op = "discover"
    /\ last.pod = None
    /\ DOMAIN pods = {Api10, Api2}
    /\ focus_pod = Api10

\* C3 as claimed: after a discovery cycle with a filter set and a successful
\* list call, the keys of the map are exactly the listed names the filter
\* finds, whatever the listing.
C3_MapIsMatchingListing ==
    [][ (last'.op = "discover" /\ last'.plist.ok /\ regex.set)
        => DOMAIN pods' = Matching(regex, last'.plist.items) ]_vars

\* C4: every key of the map matches the active filter, the map is empty
\* when no filter is set, and a pod-summary on its way to the observers
\* lists only pods that match the pattern it names.
SummaryMatchesPattern(msg) ==
    msg.type = "pods" =>
        /\ Compile(msg.pattern).ok
        /\ \A p \in msg.pods : Search(Compile(msg.pattern).re, p.name)

C4_MapMatchesFilter ==
    /\ \A n \in DOMAIN pods : regex.set /\ Search(regex, n)
    /\ SummaryMatchesPattern(disc_bc.msg)
    /\ SummaryMatchesPattern(wire.msg)

\* a set-filter arrived while the list call was in flight, and the cycle
\* installed a non-empty map under the new filter
C4_Witness ==
    /\ last.op = "discover"
    /\ last.plist.ok
    /\ Len(last.plist.items) > Cardinality(DOMAIN pods)
    /\ refresh_pending
    /\ regex_text = PatApi
    /\ Api10 \in DOMAIN pods
    /\ disc_pc = "summary"

\* C5 as claimed: a discovery cycle that installs a map and finds the Focus
\* unset or not a key of it publishes a pod-summary (observable when there
\* is an observer to publish to).
C5_ReconcilePublishes ==
    [][ (/\ InstalledBy(last')
         /\ (focus_pod = None \/ focus_pod \notin DOMAIN pods')
         /\ clients # {})
        => disc_pc' = "summary" /\ disc_bc'.msg.type = "pods" ]_vars

\* C6: a valid set-filter is one step that installs the pattern, clears the
\* Focus, empties the map and raises the refresh request, and leaves the
\* registry, the subscriber sets and every loop where they are.
ValidPayload(payload) ==
    /\ payload.has
    /\ payload.pattern # <<>>
    /\ \A i \in DOMAIN payload.pattern : payload.pattern[i] # "("

C6_SetFilter ==
    [][ (last'.op = "set_pattern" /\ ValidPayload(last'.payload))
        => /\ last'.resp = "ok"
           /\ regex'.set
           /\ regex_text' = last'.payload.pattern
           /\ regex' = Compile(last'.payload.pattern).re
           /\ focus_pod' = None
           /\ pods' = NoPods
           /\ refresh_event'
           /\ UNCHANGED <<clients, logs_subs, conn, ws_bc, http_bc, disc_pc, disc_bc>>
           /\ wire' = NoWire ]_vars

\* a valid set-filter was served while the discovery loop was publishing a
\* summary and an observer was subscribed to a log key
C6_Witness ==
    /\ last.op = "set_pattern"
    /\ last.resp = "ok"
    /\ disc_pc = "summary"
    /\ disc_bc.msg.focus # None
    /\ clients = Observers
    /\ \E k \in LogKeys : logs_subs[k] # {}

\* C7 as claimed: a refresh request is never lost: the loop never enters its
\* wait with a request pending and the event cleared, where only the full
\* discovery period ends the wait.
C7_RefreshNeverLost ==
    (disc_pc = "wait" /\ refresh_pending) => refresh_event

\* C8: a set-filter without a pattern, with an empty one or with one that
\* does not compile answers with an error and changes nothing.
C8_InvalidSetFilter ==
    [][ (last'.op = "set_pattern" /\ ~ValidPayload(last'.payload))
        => /\ last'.resp = IF ~last'.payload.has \/ last'.payload.pattern = <<>>
                           THEN "pattern required" ELSE "invalid regex"
           /\ UNCHANGED <<hubVars, connVars, http_bc, discVars>>
           /\ wire' = NoWire ]_vars

\* an uncompilable pattern was rejected while a filter, a map and a Focus
\* were in place
C8_Witness ==
    /\ last.op = "set_pattern"
    /\ last.payload.pattern = PatBad
    /\ last.resp = "invalid regex"
    /\ regex_text = PatApi
    /\ focus_pod = Api2
    /\ clients # {}
    /\ ~refresh_event

\* C9: clear-filter sets the filter to none, the Focus to none and the map
\* to empty, raises the refresh request and starts a broadcast of the
\* "awaiting pattern" notice to the whole registry; each send of that
\* broadcast goes to an observer not yet served, and the request answers
\* when none is left.
C9_ClearFilter ==
    [][ /\ last'.op = "reset_pattern"
           => /\ regex' = NoRegex
              /\ regex_text' = None
              /\ focus_pod' = None
              /\ pods' = NoPods
              /\ refresh_event'
              /\ UNCHANGED <<clients, logs_subs>>
              /\ \E k \in ResetSlots :
                    /\ ~http_bc[k].on
                    /\ http_bc'[k].all = clients
                    /\ http_bc'[k].todo = clients
                    /\ http_bc'[k].on = (clients # {})
                    /\ http_bc'[k].on => http_bc'[k].msg = AwaitingMsg
              /\ last'.resp = IF clients = {} THEN "ok" ELSE ""
        /\ \A k \in ResetSlots :
              (http_bc[k].on /\ http_bc'[k] # http_bc[k])
              => /\ wire'.msg = AwaitingMsg
                 /\ wire'.to \in http_bc[k].todo
                 /\ wire'.ok = (conn[wire'.to] = "open")
                 /\ IF http_bc[k].todo = {wire'.to}
                    THEN ~http_bc'[k].on /\ last'.resp = "ok"
                    ELSE /\ http_bc'[k].on
                         /\ http_bc'[k].todo = http_bc[k].todo \ {wire'.to}
                         /\ http_bc'[k].msg = AwaitingMsg
      ]_vars

\* the notice reached both observers and the request answered
C9_Witness ==
    /\ last.op = "send"
    /\ last.resp = "ok"
    /\ wire.msg = AwaitingMsg
    /\ wire.ok
    /\ clients = Observers
    /\ \A o \in Observers : conn[o] = "open"
    /\ disc_pc = "wait"

\* C10: a focus request for a key of the map moves the Focus there and
\* starts a broadcast of that entity's detail to the whole registry; for
\* any other identity it changes nothing and sends nothing.
C10_FocusRequest ==
    [][ last'.op = "focus"
        => IF last'.pod \in DOMAIN pods
           THEN /\ focus_pod' = last'.pod
                /\ \E o \in Observers :
                      /\ ~ws_bc[o].on
                      /\ ws_bc'[o].on
                      /\ ws_bc'[o].msg = PodMsg(pods[last'.pod])
                      /\ ws_bc'[o].all = clients
                      /\ ws_bc'[o].todo = clients
                /\ UNCHANGED <<regex, regex_text, pods, clients>>
           ELSE /\ UNCHANGED <<hubVars, connVars, http_bc, discVars>>
                /\ wire' = NoWire
      ]_vars

\* a focus request moved the Focus from api-10 to api-2 and the detail of
\* api-2 is on its way to both observers
C10_Witness ==
    /\ last.op = "focus"
    /\ last.pod = Api2
    /\ focus_pod = Api2
    /\ Api10 \in DOMAIN pods
    /\ \E o \in Observers :
          /\ ws_bc[o].on
          /\ ws_bc[o].msg.data.name = Api2
          /\ ws_bc[o].todo = Observers

\* The handler of a connection has ended: its finally block has run.
Ended(o) == conn[o] = "closed"

\* Observer o is in no collection of the Hub.
Removed(o) == o \notin clients /\ \A k \in DOMAIN logs_subs : o \notin logs_subs[k]

\* C11: a subscribe on the summary channel sends the requester, in every
\* state of the Hub, the summary of the current map, and then the detail of
\* the focused pod if and only if a focus is set; nobody else is sent
\* anything and the map, the focus and the filter stay as they are.
C11_SubscribeSummary ==
    [][/\ last'.op = "subscribe" =>
            /\ \E o \in Observers :
                 /\ Receiving(o)
                 /\ wire' = [to |-> o, msg |-> SubPodsMsg(pods, focus_pod),
                             ok |-> TRUE]
            /\ UNCHANGED <<pods, focus_pod, regex, regex_text>>
       /\ last'.op = "subscribe_detail" =>
            /\ (wire'.to # 0) = (focus_pod # None)
            /\ wire'.to # 0 =>
                 /\ ws_pc[wire'.to] = "summary"
                 /\ wire'.msg = PodMsg(pods[focus_pod])
            /\ UNCHANGED <<pods, focus_pod, regex, regex_text>>
      ]_vars

\* the follow_logs calls of a key whose backend follow is in progress
Running(key) == { i \in DOMAIN follows[key] : follows[key][i].running }

\* C12: at no time is more than one backend log follow in progress for a
\* key, whatever the subscribes, disconnects, focus changes and ticks of
\* the logs loop were; a second subscriber to an Active key starts none.
C12_OneFollowPerKey ==
    \A key \in DOMAIN follows : Cardinality(Running(key)) <= 1

\* a tick of the logs loop has just passed over a key that has two
\* subscribers and a follow in progress
C12_Witness ==
    /\ last.op = "logs_tick"
    /\ \E key \in FocusKeys :
         /\ Cardinality(logs_subs[key]) = 2
         /\ Cardinality(Running(key)) = 1

\* C13: when the stream of a key has gone Inactive after its subscribers
\* left (its follow ended on the stop signal) and an observer has subscribed
\* again with the pod still focused, the tick of the logs loop starts
\* exactly one new follow for the key.
C13_ResubscribeRestarts ==
    [][last'.op = "logs_tick" =>
         \A key \in FocusKeys :
            ( /\ logs_subs[key] # {}
              /\ follows[key] # <<>>
              /\ \A i \in DOMAIN follows[key] :
                    ~follows[key][i].running /\ follows[key][i].stop )
            => follows'[key] = Append(follows[key], NewFollow)
      ]_vars

\* C14: whenever a key of the focused pod has a subscriber and no follow
\* in progress, also after its follow has ended or failed, the tick of the
\* logs loop starts a follow for it.
C14_TickStartsFollow ==
    [][last'.op = "logs_tick" =>
         \A key \in FocusKeys :
            (logs_subs[key] # {} /\ Running(key) = {})
            => \E i \in DOMAIN follows'[key] : follows'[key][i].running
      ]_vars

\* C15: once the subscriber set of a key with a follow in progress is
\* empty, the follow ends (the next line's _cb sets the stop event, the
\* line after it makes the thread leave its loop), unless an observer
\* subscribes again first; the backend keeps delivering lines.
C15_EmptyKeyStops ==
    \A key \in StreamKeys :
        ( /\ Running(key) # {}
          /\ logs_subs[key] = {}
          /\ \A i \in Running(key) : follows[key][i].yielded < MaxLines )
        ~> (Running(key) = {} \/ logs_subs[key] # {})

\* the follow of a key has ended on its stop event, the key's set empty
C15_Witness ==
    \E key \in StreamKeys :
        /\ follows[key] # <<>>
        /\ ~follows[key][1].running
        /\ follows[key][1].stop
        /\ logs_subs[key] = {}

\* C16: a line that a follow in progress yields while its key has a
\* subscriber is fanned out: an observer that subscribed while the follow
\* was running gets every line the backend yields from then on.
C16_YieldedLineFannedOut ==
    [][\A key \in DOMAIN follows : \A i \in DOMAIN follows[key] :
         ( /\ follows[key][i].running
           /\ follows'[key][i].yielded = follows[key][i].yielded + 1
           /\ logs_subs[key] # {} )
         => \E j \in DOMAIN cbs'[key] :
               /\ cbs'[key][j].inst = i
               /\ cbs'[key][j].line = BackendLine(follows'[key][i].yielded)
      ]_vars

\* C17: a failed send of a log line removes that observer from that key's
\* set and from nothing else; the coroutine goes on to the other
\* subscribers of its snapshot, who stay subscribed for later lines; and
\* the stop event is set only by a _cb that found the key's set empty.
C17_FailedLineSend ==
    [][/\ (wire'.msg.type = "log" /\ ~wire'.ok) =>
            LET key == <<wire'.msg.pod, wire'.msg.container>>
                o == wire'.to
            IN  /\ logs_subs' = [logs_subs EXCEPT ![key] = @ \ {o}]
                /\ clients' = clients
                /\ \A j \in DOMAIN cbs[key] :
                     ( /\ cbs[key][j].sending
                       /\ cbs[key][j].line = wire'.msg.line
                       /\ cbs[key][j].todo # {o} )
                     => \E j2 \in DOMAIN cbs'[key] :
                           cbs'[key][j2] =
                              [cbs[key][j] EXCEPT !.todo = @ \ {o}]
       /\ \A key \in DOMAIN follows : \A i \in DOMAIN follows[key] :
            (follows'[key][i].stop /\ ~follows[key][i].stop)
            => logs_subs[key] = {}
      ]_vars

\* a log line's send to one observer has failed: the observer is out of
\* the key's set and still in the registry, its connection unnoticed, and
\* the coroutine still has the other subscriber to send the line to
C17_Witness ==
    /\ wire.msg.type = "log"
    /\ ~wire.ok
    /\ wire.to \in clients
    /\ LET key == <<wire.msg.pod, wire.msg.container>>
       IN  /\ wire.to \notin logs_subs[key]
           /\ \E j \in DOMAIN cbs[key] :
                /\ cbs[key][j].line = wire.msg.line
                /\ cbs[key][j].todo # {}
                /\ cbs[key][j].todo \subseteq logs_subs[key]

\* One step of a broadcast that was under way in b and is b2 afterwards:
\* the send goes to an observer of the snapshot that was not yet served;
\* the observers whose send failed are collected, and discarded from the
\* registry, with nobody else, when the last send is done.
BroadcastStep(b, b2) ==
    LET o == wire'.to
        dead == IF wire'.ok THEN b.dead ELSE b.dead \cup {o}
    IN  /\ o \in b.todo
        /\ wire'.msg = b.msg
        /\ wire'.ok = (conn[o] = "open")
        /\ IF b.todo = {o}
           THEN clients' = clients \ dead
           ELSE /\ b2 = [b EXCEPT !.todo = @ \ {o}, !.dead = dead]
                /\ clients' = clients

\* A broadcast begins in b2: its snapshot is the registry
BroadcastStart(b2) ==
    b2.on => (b2.all = clients' /\ b2.todo = clients' /\ b2.dead = {})

\* C18: a broadcast tries every observer that was in the registry when it
\* began; those whose send failed leave the registry, those whose send
\* succeeded stay and have been sent the message; a failed send does not
\* end the broadcast or the loop that publishes.
C18_Broadcast ==
    [][/\ IF disc_bc.on /\ disc_bc' # disc_bc
          THEN BroadcastStep(disc_bc, disc_bc') /\ disc_pc' # "crashed"
          ELSE disc_bc' # disc_bc => BroadcastStart(disc_bc')
       /\ \A o \in Observers :
            IF ws_bc[o].on /\ ws_bc'[o] # ws_bc[o]
            THEN BroadcastStep(ws_bc[o], ws_bc'[o])
            ELSE ws_bc'[o] # ws_bc[o] => BroadcastStart(ws_bc'[o])
       /\ \A k \in ResetSlots :
            IF http_bc[k].on /\ http_bc'[k] # http_bc[k]
            THEN BroadcastStep(http_bc[k], http_bc'[k])
            ELSE http_bc'[k] # http_bc[k] => BroadcastStart(http_bc'[k])
      ]_vars

\* a broadcast to two observers has just ended: one send failed and that
\* observer is out of the registry, the other was sent the message and
\* is still in it
C18_Witness ==
    /\ last.op = "send"
    /\ wire.ok
    /\ wire.to \in clients
    /\ \E d \in Observers :
         d # wire.to /\ conn[d] = "broken" /\ d \notin clients
    /\ ~disc_bc.on
    /\ \A o \in Observers : ~ws_bc[o].on
    /\ \A k \in ResetSlots : ~http_bc[k].on

\* C19: an observer whose handler has ended, on a disconnect or on an
\* error, is in neither the registry nor any key's subscriber set: the
\* handler removes it from all of them in its last step and nothing puts
\* it back.
C19_EndedIsRemoved ==
    \A o \in Observers : Ended(o) => Removed(o)

\* a handler has ended on a failed send to its own connection while the
\* other observer is subscribed to a key
C19_Witness ==
    /\ last.op = "subscribe_detail"
    /\ ~wire.ok
    /\ Ended(wire.to)
    /\ \E k \in DOMAIN logs_subs : logs_subs[k] # {}

\* Observer o is in no collection of the Hub after the step.
RemovedAfter(o) ==
    o \notin clients' /\ \A k \in DOMAIN logs_subs' : o \notin logs_subs'[k]

\* C20: an observer to whom a send has failed is out of the Hub, registry
\* and every key's subscriber set, when the broadcast that met the failure
\* ends or, for a log line, when that send has failed, so that no later
\* send to it is tried.
C20_FailedIsRemoved ==
    [][/\ \A o \in Observers :
            (ws_bc[o].on /\ ~ws_bc'[o].on) =>
               /\ \A d \in ws_bc[o].dead : RemovedAfter(d)
               /\ ~wire'.ok => RemovedAfter(wire'.to)
       /\ (wire'.msg.type = "log" /\ ~wire'.ok) => RemovedAfter(wire'.to)
      ]_vars

\* C27: in a discovery cycle the detail is published only after the
\* summary of that cycle has been sent to its last observer, every send of
\* the summary step carries the summary and every send of the detail step
\* the detail; the next list call begins only from the wait, when no
\* publish step of the cycle is still under way.
C27_SummaryBeforeDetail ==
    [][/\ (disc_pc' = "detail" /\ disc_bc' # disc_bc) =>
            \/ /\ disc_pc = "summary"
               /\ disc_bc.msg.type = "pods"
               /\ disc_bc.todo = {wire'.to}
               /\ disc_bc'.msg.type = "pod"
            \/ /\ disc_pc = "detail"
               /\ wire'.msg.type = "pod"
       /\ (disc_pc = "summary" /\ disc_bc' # disc_bc) =>
            wire'.msg.type = "pods"
       /\ (disc_pc' = "list" /\ disc_pc # "list") =>
            disc_pc = "wait" /\ ~disc_bc.on /\ ~disc_bc'.on
      ]_vars

\* the summary of a cycle has gone to both observers and the detail of the
\* same cycle is about to be sent
C27_Witness ==
    /\ disc_pc = "detail"
    /\ disc_bc.todo = Observers
    /\ wire.msg.type = "pods"
    /\ wire.ok

\* C28: a discovery cycle that finds no filter set leaves the map and the
\* Focus as they are and, whatever the list call returned, starts the
\* broadcast of the awaiting-pattern notice to the whole registry; every
\* send of that broadcast carries the notice.
C28_NoFilterNotice ==
    [][/\ (last'.op = "discover" /\ ~regex.set) =>
            /\ pods' = pods
            /\ focus_pod' = focus_pod
            /\ disc_bc' = IF clients = {} THEN NoBc
                          ELSE StartBc(AwaitingMsg, clients)
            /\ disc_pc' = IF clients = {} THEN "wait" ELSE "notice"
       /\ (disc_pc = "notice" /\ disc_bc' # disc_bc) =>
            /\ wire'.msg = AwaitingMsg
            /\ wire'.to \in disc_bc.todo
      ]_vars

\* a cycle has found no filter while two observers are registered
C28_Witness ==
    /\ last.op = "discover"
    /\ ~regex.set
    /\ disc_pc = "notice"
    /\ disc_bc.todo = Observers

\* C29: a cycle whose list call failed leaves the map and the Focus as
\* they are, publishes no pod-summary and no detail, and goes on to the
\* wait (after the awaiting-pattern notice if no filter is set): the loop
\* does not end.
C29_ListFailure ==
    [][(last'.op = "discover" /\ ~last'.plist.ok) =>
          /\ pods' = pods
          /\ focus_pod' = focus_pod
          /\ disc_bc'.msg.type \notin {"pods", "pod"}
          /\ disc_pc' = IF regex.set \/ clients = {} THEN "wait" ELSE "notice"
      ]_vars

\* the list call has failed while the map holds an entity and a filter is
\* set; the loop is in its wait
C29_Witness ==
    /\ last.op = "discover"
    /\ ~last.plist.ok
    /\ regex.set
    /\ pods # NoPods
    /\ focus_pod # None
    /\ disc_pc = "wait"

\* C30: a cycle that builds the map from a listing in which the processing
\* of a container or of an env entry fails still installs an Entity for
\* every listed pod the filter finds, with only the failing entry left
\* out, and the discovery loop goes on.
C30_FailureContained ==
    [][(last'.op = "discover" /\ Installs(last'.plist, regex)) =>
          /\ DOMAIN pods' = Matching(regex, last'.plist.items)
          /\ disc_pc' # "crashed"
      ]_vars

\* C24: the metrics loop issues a usage fetch only in a step in which the
\* Focus is set and a key of the Canonical Map, and the fetch is for the
\* namespace and name of that Entity.
C24_FetchOnlyFocus ==
    [][(met_pc' = "fetch" /\ met_pc # "fetch") =>
          /\ focus_pod # None
          /\ focus_pod \in DOMAIN pods
          /\ met_req'.name = focus_pod
          /\ met_req'.namespace = pods[focus_pod].namespace
      ]_vars

\* a fetch for api-2 is in flight, and api-2 is not the first entity of the
\* map: an observer made it the Focus
C24_Witness ==
    /\ met_pc = "fetch"
    /\ last.op = "metrics_tick"
    /\ met_req.name = Api2
    /\ DOMAIN pods = {Api10, Api2}

C26_ResultOfFocus ==
    [][(last'.op = "metrics" /\ last'.resp = "sample" /\ met_bc'.on) =>
          /\ focus_pod' # None
          /\ focus_pod' \in DOMAIN pods'
          /\ met_bc'.msg =
                MetricsMsg(metrics_to_view(Sample(focus_pod'), pods'[focus_pod']))
      ]_vars

\* the entries of a seen dict, as a set
Entries(sn) == { sn[i] : i \in DOMAIN sn }

\* the seen dict of a step of poll_events before its prune: the entries it
\* had and those of the events published in the step, whose first-seen
\* time is the now_ts of the cycle
BeforePrune ==
    Entries(seen) \cup
    { [uid |-> u, ts |-> IF ev_pc = "send" THEN ev_cycle.ts ELSE now] :
        u \in last'.resp }

\* a step in which poll_events runs the item loop
EventsStep == last'.op = "events"

\* the event of the backend with uid u
EventOf(u) ==
    CHOOSE e \in { EventPool[i] : i \in DOMAIN EventPool } : e.uid = u

\* C21 as stated: an event is not published again within the TTL that
\* follows its last publication, whatever the eviction did in between.
C21_OncePerTTL ==
    [][EventsStep =>
          \A u \in last'.resp :
             u \in DOMAIN published => now - published[u].at > SeenTTL
      ]_vars

\* C21, amended: an event is published only in a step in which its uid is
\* not in the Seen-Event Window, the window changes only in steps of the
\* events loop, and a uid leaves it only in the prune of a cycle that found
\* the window over its ceiling; so an event the backend keeps listing is
\* published once for as long as its uid stays in the window.
C21_OnceWhileInWindow ==
    [][/\ EventsStep =>
            /\ \A u \in last'.resp : u \notin SeenIds(seen)
            /\ Entries(seen') \subseteq BeforePrune
            /\ Entries(seen') # BeforePrune =>
                  /\ ev_pc' = "sleep"
                  /\ Cardinality(BeforePrune) > SeenMax
       /\ ~EventsStep => seen' = seen
      ]_vars

\* an event has just been published for the second time: its uid had
\* left the window in a prune
C21_Witness ==
    /\ last.op = "events"
    /\ \E u \in last.resp :
         /\ published[u].again
         /\ u \in SeenIds(seen)

\* C22: the window loses entries only at the end of a cycle that found it
\* over the ceiling; then every entry older than the TTL goes and, if the
\* rest is still over the ceiling, the entries first seen earliest go
\* until the size is the ceiling, so that no entry goes while an entry
\* first seen before it stays; whenever the loop sleeps the size is at most
\* the ceiling.
C22_Eviction ==
    [][/\ EventsStep =>
            LET fresh == { e \in BeforePrune : ~(e.ts < now - SeenTTL) }
                after == Entries(seen')
            IN  IF ev_pc' = "sleep" /\ Cardinality(BeforePrune) > SeenMax
                THEN /\ after \subseteq fresh
                     /\ IF Cardinality(fresh) <= SeenMax THEN after = fresh
                        ELSE /\ Cardinality(after) = SeenMax
                             /\ \A k \in after, r \in fresh \ after :
                                  r.ts <= k.ts
                ELSE after = BeforePrune
       /\ ev_pc' = "sleep" => Len(seen') <= SeenMax
       /\ Len(seen') = Cardinality(Entries(seen'))
      ]_vars

\* a cycle has published an event into a full window and its prune has
\* brought the window back to the ceiling: an entry younger than the TTL,
\* the one first seen earliest, is gone
C22_Witness ==
    /\ last.op = "events"
    /\ ev_pc = "sleep"
    /\ last.resp # {}
    /\ last.resp \subseteq SeenIds(seen)
    /\ Len(seen) = SeenMax
    /\ \E v \in DOMAIN published \ SeenIds(seen) :
         ~(published[v].at < now - SeenTTL)

\* C23: a uid enters the window only if its event is published
\* in that step and regards, by uid or by name, an Entity of the Canonical
\* Map.
C23_OnlyMapEvents ==
    [][\A u \in SeenIds(seen') \ SeenIds(seen) :
          /\ EventsStep
          /\ u # None
          /\ u \in last'.resp
          /\ EventOf(u).r_name # None
          /\ \E n \in DOMAIN pods :
               pods[n].uid = EventOf(u).r_uid \/ pods[n].name = EventOf(u).r_name
      ]_vars

\* What holds of C23 in the code: a uid enters the window only if its
\* event is published in that step, has a target name and regards, by uid
\* or by name, a pod of pod_uids or pod_names, the copy of the Canonical
\* Map the cycle took when it began; of a listing no event without uid,
\* without target name or regarding none of those pods is recorded.
C23_OnlyPublishedRecorded ==
    [][/\ \A u \in SeenIds(seen') \ SeenIds(seen) :
            /\ EventsStep
            /\ u # None
            /\ u \in last'.resp
            /\ EventOf(u).r_name # None
            /\ \/ EventOf(u).r_uid \in ev_cycle.uids
               \/ EventOf(u).r_name \in ev_cycle.names
       /\ (EventsStep /\ last'.plist # NoList) =>
            \A i \in DOMAIN last'.plist.items :
               LET e == last'.plist.items[i]
               IN  (\/ e.uid = None
                    \/ e.r_name = None
                    \/ (e.r_uid \notin ev_cycle.uids /\ e.r_name \notin ev_cycle.names))
                   => (e.uid = None \/ e.uid \notin SeenIds(seen') \ SeenIds(seen))
      ]_vars

(***************************************************************************)
(* The worker threads of the log follows.                                  *)
(***************************************************************************)
\* A step of a worker thread: a follow that exists before and after the
\* step takes a line off its response or leaves _stream.
WorkerStep ==
    \E key \in DOMAIN follows : \E i \in DOMAIN follows[key] :
        /\ i \in DOMAIN follows'[key]
        /\ \/ follows'[key][i].yielded # follows[key][i].yielded
           \/ follows'[key][i].running # follows[key][i].running

\* the stop events of the follows of a key, in the order of the follows
StopFlags(fl) == [key \in DOMAIN fl |-> [i \in DOMAIN fl[key] |-> fl[key][i].stop]]

\* what a worker leaves on the scheduler: nothing, or one coroutine that has
\* not started and holds the line only
HandedOver ==
    \A key \in DOMAIN cbs :
        \/ cbs'[key] = cbs[key]
        \/ /\ Len(cbs'[key]) = Len(cbs[key]) + 1
           /\ SubSeq(cbs'[key], 1, Len(cbs[key])) = cbs[key]
           /\ ~cbs'[key][Len(cbs'[key])].sending
           /\ cbs'[key][Len(cbs'[key])].todo = {}

\* C31: a step of a worker thread leaves the Canonical Map, the Focus, the
\* registry, the subscriber sets and the dedup window as they are and sets
\* no stop event; the line it received is left to the scheduler as a
\* coroutine that has not yet read a subscriber set, and no observer is
\* sent anything in that step.
C31_WorkerSharesStopOnly ==
    [][ WorkerStep =>
          /\ UNCHANGED <<pods, focus_pod, clients, logs_subs, seen, regex,
                         active, conn>>
          /\ StopFlags(follows') = StopFlags(follows)
          /\ HandedOver
          /\ wire' = NoWire
      ]_vars

\* a worker has handed a line over while the key has a subscriber and an
\* earlier line is being sent on the scheduler
C31_Witness ==
    \E key \in LogKeys :
        /\ logs_subs[key] # {}
        /\ \E i \in DOMAIN follows[key] : follows[key][i].yielded = 2
        /\ \E j \in DOMAIN cbs[key] : cbs[key][j].sending
        /\ \E j \in DOMAIN cbs[key] :
              ~cbs[key][j].sending /\ ~cbs[key][j].line.err

\* the identities (namespace, name) of the listed pods the filter finds
MatchingIds(re, items) ==
    { [name |-> items[i].name, namespace |-> items[i].namespace] :
        i \in { j \in DOMAIN items : Search(re, items[j].name) } }

\* C32 as claimed: a cycle that installs a map leaves in it one Entity for
\* every identity (namespace, name) of the listing the filter finds, two
\* pods of one name in two namespaces included, and the pod-summary it
\* publishes names them all.
C32_EntryPerIdentity ==
    [][(last'.op = "discover" /\ Installs(last'.plist, regex)) =>
          /\ MatchingIds(regex, last'.plist.items) = Summary(pods')
          /\ disc_pc' = "summary" =>
               MatchingIds(regex, last'.plist.items) = disc_bc'.msg.pods
      ]_vars

(***************************************************************************)
(* The unit converter.                                                     *)
(***************************************************************************)
\* the decimal number a body denotes, as a rational, if it denotes one
IsNumber(body) == PyFloat(body).ok
NumberOf(body, times, over) ==
    Rat(PyFloat(body).n * times, over * Pow10(PyFloat(body).scale))

\* a body of digits with an optional sign
IsWhole(body) == PyInt(body).ok

\* the converter has been called on the str v
Converted(v) == calc_in = v /\ calc_out # None

\* the quantities the specification names
C33_Examples ==
    /\ Converted(<<"5", "0", "0", "m">>) => calc_out.cpu = Rat(500, 1)
    /\ Converted(<<"1">>) => calc_out.cpu = Rat(1000, 1)
    /\ Converted(<<"5", "0", "0", "0", "0", "0", "0", "0", "0", "n">>)
         => calc_out.cpu = Rat(500, 1)
    /\ Converted(<<"1", "2", "8", "M", "i">>) => calc_out.mem = Rat(128, 1)
    /\ Converted(<<"1", "G", "i">>) => calc_out.mem = Rat(1024, 1)
    /\ Converted(<<"g", "a", "r", "b", "a", "g", "e">>) => calc_out.mem = Zero
    /\ Converted(NoStr) => calc_out = [cpu |-> Zero, mem |-> Zero]

IsRounded(h, n) ==
    /\ 2 * Abs(h * 1024 - n * 100) <= 1024
    /\ 2 * Abs(h * 1024 - n * 100) = 1024 => h % 2 = 0

Slots(r) ==
    << [usage |-> r.cpu, den |-> r.cpuRequest, pct |-> r.cpuPctOfRequest],
       [usage |-> r.cpu, den |-> r.cpuLimit, pct |-> r.cpuPctOfLimit],
       [usage |-> r.memoryMiB, den |-> r.memRequestMiB, pct |-> r.memPctOfRequest],
       [usage |-> r.memoryMiB, den |-> r.memLimitMiB, pct |-> r.memPctOfLimit] >>

\* t tenths of a percent is usage / den * 100 rounded to one decimal
IsPct(t, usage, den) ==
    LET a == usage.num * den.den * 1000
        b == usage.den * den.num
    IN  2 * Abs(t * b - a) <= Abs(b)

\* a slot as the rule has it: present exactly if the denominator is declared
\* and strictly positive, and then the rounded percentage
SlotByRule(sl) ==
    /\ sl.pct # <<>> <=> (sl.den # <<>> /\ sl.den[1].num > 0)
    /\ sl.pct # <<>> => IsPct(sl.pct[1], sl.usage, sl.den[1])

\* C34 as claimed: in the entry of a container that server.metrics_to_view
\* builds, and the Hub publishes, each of the four percentage slots is
\* present if and only if its denominator is declared and strictly
\* positive, and a present slot is round(usage / denominator * 100, 1); with
\* no resources declared all four are absent.
C34_PercentSlots ==
    calc_out # None =>
        /\ \A k \in 1..4 : SlotByRule(Slots(calc_out.view)[k])
        /\ calc_in.res_map = <<>> =>
              \A k \in 1..4 : Slots(calc_out.view)[k].pct = <<>>

\* What holds of C34 in the code: process_container_metrics follows the
\* rule; in the entry server.metrics_to_view builds a slot is present
\* exactly if its denominator is declared and not zero, a negative one
\* included, and a present slot is the rounded percentage.
C34_SlotsUnlessZero ==
    calc_out # None =>
        /\ \A k \in 1..4 : SlotByRule(Slots(calc_out.lib)[k])
        /\ \A k \in 1..4 :
             LET sl == Slots(calc_out.view)[k]
             IN  /\ sl.pct # <<>> <=> (sl.den # <<>> /\ sl.den[1] # Zero)
                 /\ sl.pct # <<>> => IsPct(sl.pct[1], sl.usage, sl.den[1])

\* the pods of a map that an event regards, by uid or by name
Targets(e, pds) ==
    { n \in DOMAIN pds : pds[n].uid = e.r_uid \/ pds[n].name = e.r_name }

\* C35 as claimed: every event poll_events publishes regards, by uid or by
\* name, an Entity that is in the Canonical Map when the event is
\* published, whatever replaced or cleared the map while the list call or
\* an earlier broadcast of the cycle was awaited.
C35_PublishedForMapEntity ==
    [][EventsStep =>
          \A u \in last'.resp : Targets(EventOf(u), pods') # {}
      ]_vars

\* C40 as claimed: with entities of two namespaces in the map, each of the
\* backend's events for an entity of the map is eventually published.
C40_EveryNamespaceCovered ==
    \A i \in DOMAIN NsEvents : <>(NsEvents[i].uid \in DOMAIN published)

\* What holds of C40 in the code: the events of the namespace a cycle
\* lists are published, so some event is eventually published; a cycle
\* lists one namespace, that of the first entry of the map.
C40_SomeNamespaceCovered ==
    <>(\E i \in DOMAIN NsEvents : NsEvents[i].uid \in DOMAIN published)

\* the follows of log key k that have been started so far
Started(k) == Len(follows[k])

\* k is "<name>::<container>" for the focused pod and one of its containers
OfFocus(k) ==
    /\ focus_pod # None
    /\ focus_pod \in DOMAIN pods
    /\ k[1] = pods[focus_pod].name
    /\ \E i \in DOMAIN pods[focus_pod].containers :
         pods[focus_pod].containers[i].name = k[2]

\* C36: a follow of a key starts only in a pass of the logs loop, only for a
\* key of the pod that is the focus at that pass and one of its containers,
\* and only if the key has a subscriber at that pass; a pass of the logs
\* loop stops no follow: it leaves every follow that exists as it is and
\* removes no key from the active set.
C36_FollowOnlyForFocus ==
    [][ /\ \A k \in StreamKeys :
            Len(follows'[k]) > Started(k) =>
              /\ last'.op = "logs_tick"
              /\ OfFocus(k)
              /\ Subs(k) # {}
              /\ Len(follows'[k]) = Started(k) + 1
        /\ last'.op = "logs_tick" =>
              /\ active \subseteq active'
              /\ \A k \in StreamKeys : \A i \in DOMAIN follows[k] :
                    follows'[k][i] = follows[k][i] ]_vars

\* a pass of the logs loop has run while api-2, which is not the focus, had
\* a subscriber to its logs: the key of api-10, the focus, is followed and
\* the key of api-2 is not
C36_Witness ==
    /\ last.op = "logs_tick"
    /\ focus_pod = Api10
    /\ Subs(<<Api2, "app">>) # {}
    /\ Started(<<Api2, "app">>) = 0
    /\ Started(<<Api10, "app">>) > 0

\* C37: when a discovery cycle has run with a filter set and a listing that
\* succeeded (here: one that holds pods, so that the cycle installs a map),
\* the pods of the summary published last are the keys of the map (no
\* summary published yet counts as a summary of no pods).
C37_LatestSummaryIsMap ==
    (/\ last.op = "discover"
     /\ last.plist.ok
     /\ last.plist.items # <<>>
     /\ regex.set
     /\ disc_pc # DiscCrash.pc)
    => latest.pods = DOMAIN pods

\* the same, for the cycles that find the key set of the map changed or the
\* focus to be moved: those publish, and their summary is the map
C37_SummaryWhenChanged ==
    [][ (last'.op = "discover" /\ Publishes(last'.plist))
        => latest'.pods = DOMAIN pods' ]_vars

\* C38: a discovery cycle that installs a map of which the focus is still a
\* key leaves the focus as it is, whatever other keys the map has, and it
\* publishes a summary only if the key set of the map changed.
C38_FocusKept ==
    [][ (/\ last'.op = "discover"
         /\ Installs(last'.plist, regex)
         /\ disc_pc' # DiscCrash.pc
         /\ focus_pod # None
         /\ focus_pod \in DOMAIN pods')
        => /\ focus_pod' = focus_pod
           /\ disc_pc' = "summary" => DOMAIN pods' # DOMAIN pods ]_vars

\* a cycle has published a summary with api-2 as the focus although api-10,
\* which sorts before it, is a key of the map
C38_Witness ==
    /\ last.op = "discover"
    /\ disc_pc = "summary"
    /\ focus_pod = Api2
    /\ DOMAIN pods = {Api10, Api2}

\* C39: the log lines an observer is sent for a key arrive in the order the
\* backend yielded them: a line that is delivered to an observer has a
\* higher number than the line delivered to that observer before.
C39_LinesInOrder ==
    [][ \A o \in Observers :
          (/\ wire'.msg.type = "log"
           /\ wire'.to = o
           /\ wire'.ok
           /\ ~wire'.msg.line.err)
          => wire'.msg.line.n > got[o] ]_vars

\* what does hold: the _cb coroutines take their snapshot of the subscriber
\* set in the order of the lines, so a coroutine that is still to start
\* carries a later line than every coroutine of its follow that is sending
C39_StartedInOrder ==
    \A key \in StreamKeys : \A j, k \in DOMAIN cbs[key] :
        (/\ cbs[key][j].sending
         /\ ~cbs[key][k].sending
         /\ ~cbs[key][j].line.err
         /\ ~cbs[key][k].line.err
         /\ cbs[key][j].inst = cbs[key][k].inst)
        => cbs[key][j].line.n < cbs[key][k].line.n

=============================================================================
